---- MODULE Spec2Model ----
(***************************************************************************)
(* TripSmith multi-agent travel planner: the PlannerAgent controller       *)
(* (planner_agent.py), the record validators of schemas.py and the         *)
(* request validation / response envelope of base_agent.py.                *)
(*                                                                         *)
(* Encodings.  Optional[T] is a sequence of length 0 (None) or 1.          *)
(* Calendar dates are day ordinals, so (end_date - start_date).days is     *)
(* integer subtraction.  Money is an integer amount.  Hotel ratings are    *)
(* tenths of a star (45 = 4.5).  duration_hours is counted in units of     *)
(* 1/UnitsPerHour hour.  Python lists are sequences.                       *)
(***************************************************************************)
EXTENDS Integers, Sequences, FiniteSets, TLC

VARIABLES
    request,            \* the SearchRequest handed to process_request
    pc,                 \* position of the running call
    flight_response,    \* AgentResponse of FlightAgent.process_request
    hotel_response,     \* AgentResponse of HotelAgent.process_request
    poi_response,       \* AgentResponse of POIAgent.process_request
    flights,            \* create_itinerary argument `flights`
    hotels,             \* create_itinerary argument `hotels`
    pois,               \* create_itinerary argument `pois`
    trip_duration,      \* local of create_itinerary
    selected_flights,   \* local of create_itinerary
    selected_hotels,    \* local of create_itinerary
    daily_schedules,    \* local of create_itinerary
    itinerary,          \* Optional[Itinerary] returned by create_itinerary
    raised,             \* TRUE when create_itinerary re-raised (line 150)
    activities,         \* create_free_time_slots argument
    free_time_slots,    \* create_free_time_slots result
    response,           \* Optional[AgentResponse] returned by process_request
    is_valid,           \* Optional[bool] returned by validate_itinerary
    total_cost,         \* Optional[float] returned by calculate_total_cost
    preferences,        \* request.preferences
    lookups,            \* what the external services answer to a provider
    interests,          \* POIAgent.process_request local
    candidates,         \* return value of search_flights/_hotels/_pois
    normalized          \* return value of normalize_flights/_hotels/_pois

vars == <<request, pc, flight_response, hotel_response, poi_response,
          flights, hotels, pois, trip_duration, selected_flights,
          selected_hotels, daily_schedules, itinerary, raised,
          activities, free_time_slots, response, is_valid, total_cost,
          preferences, lookups, interests, candidates, normalized>>

\* The results of the itinerary checks, left alone by the other calls.
validation == <<is_valid, total_cost>>

\* The state of a provider call, left alone by the planner's own steps.
provider == <<preferences, lookups, interests, candidates, normalized>>

(***************************************************************************)
(* Bounds of the model.                                                    *)
(***************************************************************************)
MaxDays == 3        \* longest trip, in days
MaxFlights == 3     \* longest flight candidate list (select_best_flights)
MaxHotels == 4      \* longest hotel candidate list (select_best_hotels)
MaxCandidates == 3  \* longest hotel / POI candidate list of a composition
MaxActivities == 3  \* longest activity list handed to create_free_time_slots
MaxProvided == 2    \* longest list a provider returns in the pipeline

None == << >>
Some(x) == <<x>>
IsNone(o) == Len(o) = 0
Val(o) == o[1]
Range(s) == {s[i] : i \in 1..Len(s)}

\* All sequences over S of length 0..n.
SeqsUpTo(S, n) == UNION {[1..k -> S] : k \in 0..n}

(***************************************************************************)
(* Python's sorted()/list.sort(): a stable sort by a key.  less[i][j] is   *)
(* key(s[i]) < key(s[j]).  Element i lands after every element with a      *)
(* smaller key and after every earlier element with an equal key.          *)
(***************************************************************************)
Sorted(s, less) ==
    LET n == Len(s)
        rank(i) == 1 + Cardinality({j \in 1..n :
                        \/ less[j][i]
                        \/ (~less[i][j] /\ j < i)})
    IN [p \in 1..n |-> s[CHOOSE i \in 1..n : rank(i) = p]]

(***************************************************************************)
(* schemas.py                                                              *)
(***************************************************************************)
\* Itinerary.validate_dates: raises when end_date <= start_date.
validate_dates(start_date, end_date) == ~(end_date <= start_date)

\* Itinerary.validate_total_days: expected_days = (end - start).days + 1;
\* raises when total_days differs.  It only runs the comparison when both
\* dates validated ('start_date' in values and 'end_date' in values).
validate_total_days(v, start_date, end_date) ==
    IF validate_dates(start_date, end_date)
    THEN v = (end_date - start_date) + 1
    ELSE TRUE

\* Itinerary(...): the constructor runs the field validators and raises a
\* ValidationError when any of them raised.  Result: Some(record) or None
\* (None stands for the raised ValidationError).
Itinerary(destination, start_date, end_date, total_days, outbound_flight, return_flight, hotels_, daily_schedules_, total_budget) ==
    IF validate_dates(start_date, end_date)
       /\ validate_total_days(total_days, start_date, end_date)
    THEN Some([trip_name |-> <<"Trip to", destination>>,
               destination |-> destination,
               start_date |-> start_date,
               end_date |-> end_date,
               total_days |-> total_days,
               outbound_flight |-> outbound_flight,
               return_flight |-> return_flight,
               hotels |-> hotels_,
               daily_schedules |-> daily_schedules_,
               total_budget |-> total_budget])
    ELSE None

(***************************************************************************)
(* base_agent.py                                                           *)
(***************************************************************************)
\* BaseAgent.validate_request
validate_request_any_travelers(r) ==
    IF r.destination = "" THEN FALSE
    ELSE IF r.start_date >= r.end_date THEN FALSE
    ELSE TRUE
validate_request(r) ==
    IF r.destination = "" THEN FALSE
    ELSE IF r.start_date >= r.end_date THEN FALSE
    ELSE IF r.travelers < 1 THEN FALSE
    ELSE TRUE

\* BaseAgent.create_response
create_response(name, success, data, error_message) ==
    [agent_name |-> name, success |-> success, data |-> data,
     error_message |-> error_message]

(***************************************************************************)
(* planner_agent.py: selection                                             *)
(***************************************************************************)
\* key=lambda x: (x.price, x.duration_minutes), compared as Python tuples.
FlightKeyPriceOnly(a, b) == a.price < b.price
FlightKeyLess(a, b) ==
    \/ a.price < b.price
    \/ (a.price = b.price /\ a.duration_minutes < b.duration_minutes)

\* line 173: sorted_flights[1] if len(sorted_flights) > 1 else outbound_flight
ReturnLegSameAsOutbound(sorted_flights) == sorted_flights[1]
ReturnLeg(sorted_flights) ==
    IF Len(sorted_flights) > 1 THEN sorted_flights[2] ELSE sorted_flights[1]

\* line 167: sorted(flights, key=lambda x: (x.price, x.duration_minutes))
SortedFlights(flights_) ==
    Sorted(flights_,
           [i \in DOMAIN flights_ |-> [j \in DOMAIN flights_ |->
               FlightKeyLess(flights_[i], flights_[j])]])

CallersListAliased(list, local) == local

\* The list a caller passed in, after the callee bound `local` to the
\* result of sorted(...) or of a list comprehension: both build a new
\* list, and the callee assigns to no element of the one passed in.
CallersList(list, local) == list

\* PlannerAgent.select_best_flights: the dict {"outbound": .., "return": ..}
select_best_flights(flights_) ==
    IF flights_ = << >>
    THEN [outbound |-> None, return |-> None]
    ELSE LET sorted_flights == SortedFlights(flights_)
         IN [outbound |-> Some(sorted_flights[1]),
             return |-> Some(ReturnLeg(sorted_flights))]

\* key=lambda x: (-x.rating, x.price_per_night)
HotelKeyRatingAscending(a, b) ==
    \/ a.rating < b.rating
    \/ (a.rating = b.rating /\ a.price_per_night < b.price_per_night)
HotelKeyLess(a, b) ==
    \/ a.rating > b.rating
    \/ (a.rating = b.rating /\ a.price_per_night < b.price_per_night)

\* `if request.budget:` is Python truthiness of an Optional[float].
Truthy(budget) == ~IsNone(budget) /\ Val(budget) /= 0

\* line 199-201: h.price_per_night <= request.budget * 0.4 / trip_duration,
\* for trip_duration >= 1 (the callers pass (end_date - start_date).days of
\* a request with end_date > start_date); written without the division.
WithinNightlyCeiling(h, budget, trip_duration_) ==
    h.price_per_night * trip_duration_ * 10 <= Val(budget) * 4

\* line 207: sorted_hotels[:2] if len(sorted_hotels) >= 2 else sorted_hotels
TopHotelsUncapped(sorted_hotels) == sorted_hotels
TopHotels(sorted_hotels) ==
    IF Len(sorted_hotels) >= 2 THEN SubSeq(sorted_hotels, 1, 2)
    ELSE sorted_hotels

\* lines 198-201: the candidates left after the budget filter
BudgetFiltered(hotels_, request_, trip_duration_) ==
    IF Truthy(request_.budget)
    THEN SelectSeq(hotels_,
            LAMBDA h : WithinNightlyCeiling(h, request_.budget, trip_duration_))
    ELSE hotels_

\* line 204: sorted(hotels, key=lambda x: (-x.rating, x.price_per_night))
SortedHotels(filtered) ==
    Sorted(filtered,
           [i \in DOMAIN filtered |-> [j \in DOMAIN filtered |->
               HotelKeyLess(filtered[i], filtered[j])]])

\* PlannerAgent.select_best_hotels
select_best_hotels(hotels_, request_, trip_duration_) ==
    IF hotels_ = << >>
    THEN << >>
    ELSE LET filtered == BudgetFiltered(hotels_, request_, trip_duration_)
             sorted_hotels == SortedHotels(filtered)
         IN TopHotels(sorted_hotels)

(***************************************************************************)
(* planner_agent.py: daily schedules                                       *)
(***************************************************************************)
\* lines 271-276: the keys of pois_by_category, in insertion order (the order
\* of first appearance in pois).
RECURSIVE CategoryKeys(_)
CategoryKeys(pois_) ==
    IF pois_ = << >> THEN << >>
    ELSE LET n == Len(pois_)
             before == CategoryKeys(SubSeq(pois_, 1, n - 1))
             category == pois_[n].category
         IN IF category \in Range(before) THEN before
            ELSE Append(before, category)

\* pois_by_category[category]: the POIs of a category, in provider order.
PoisOfCategory(pois_, category) ==
    SelectSeq(pois_, LAMBDA poi : poi.category = category)

\* pois_by_category[category][:1]
FirstOfCategory(pois_, category) ==
    SubSeq(PoisOfCategory(pois_, category), 1, 1)

\* lines 284-287 and 292-295: `for category in priority: if category in
\* pois_by_category: extend(...[:1]); break`
RECURSIVE FirstByPriority(_, _)
FirstByPriority(pois_, priority) ==
    IF priority = << >> THEN << >>
    ELSE IF PoisOfCategory(pois_, Head(priority)) /= << >>
         THEN FirstOfCategory(pois_, Head(priority))
         ELSE FirstByPriority(pois_, Tail(priority))

ArrivalPriorityCulturalFirst == <<"cultural", "entertainment", "food">>
ArrivalPriority == <<"food", "entertainment", "cultural">>

DeparturePriority == <<"shopping", "food", "cultural">>

MiddleDayFirstTwoPois(pois_) ==
    SubSeq(pois_, 1, IF Len(pois_) < 2 THEN Len(pois_) ELSE 2)

\* lines 300-303: one POI from each of the first two categories
MiddleDayActivities(pois_) ==
    LET categories == CategoryKeys(pois_)
        picked(i) == IF i <= Len(categories)
                     THEN FirstOfCategory(pois_, categories[i])
                     ELSE << >>
    IN picked(1) \o picked(2)

\* PlannerAgent.select_activities_for_day (day is 0-indexed)
select_activities_for_day(pois_, day, trip_duration_) ==
    IF pois_ = << >> THEN << >>
    ELSE LET selected_activities ==
                 IF day = 0 THEN FirstByPriority(pois_, ArrivalPriority)
                 ELSE IF day = trip_duration_ - 1
                      THEN FirstByPriority(pois_, DeparturePriority)
                      ELSE MiddleDayActivities(pois_)
         IN SubSeq(selected_activities, 1,
                   IF Len(selected_activities) < 3
                   THEN Len(selected_activities) ELSE 3)

\* duration_hours is counted in 1/UnitsPerHour hours (schemas.py: float).
UnitsPerHour == 2
Hours(h) == h * UnitsPerHour

\* line 321: `activity.duration_hours or 2.0`
DurationOrZero(activity) ==
    IF IsNone(activity.duration_hours) THEN 0 ELSE Val(activity.duration_hours)
DurationOrDefault(activity) ==
    IF IsNone(activity.duration_hours) \/ Val(activity.duration_hours) = 0
    THEN Hours(2)
    ELSE Val(activity.duration_hours)

\* line 321: sum(... for activity in activities)
RECURSIVE total_activity_time(_)
total_activity_time(activities_) ==
    IF activities_ = << >> THEN 0
    ELSE DurationOrDefault(Head(activities_))
         + total_activity_time(Tail(activities_))

AfternoonSlot ==
    [start_time |-> "2:00 PM", end_time |-> "4:00 PM",
     description |-> "Free time for relaxation or exploration"]
EveningSlot ==
    [start_time |-> "6:00 PM", end_time |-> "8:00 PM",
     description |-> "Evening free time"]

\* PlannerAgent.create_free_time_slots
create_free_time_slots(activities_) ==
    LET total == total_activity_time(activities_)
        remaining_time == Hours(8) - total
    IN IF total < Hours(8)
       THEN (IF remaining_time >= Hours(2) THEN <<AfternoonSlot>> ELSE << >>)
            \o (IF remaining_time >= Hours(4) THEN <<EveningSlot>> ELSE << >>)
       ELSE << >>

\* PlannerAgent.generate_day_notes; the middle-day text is kept as the list
\* of categories it joins.
generate_day_notes(activities_, day, trip_duration_) ==
    IF day = 0
    THEN [text |-> "Arrival day - light activities to get oriented",
          activity_types |-> << >>]
    ELSE IF day = trip_duration_ - 1
         THEN [text |-> "Departure day - packing and final activities",
               activity_types |-> << >>]
         ELSE [text |-> "Full day of activities",
               activity_types |->
                   [i \in 1..Len(activities_) |-> activities_[i].category]]

DailyScheduleFromDayOne(request_, pois_, day, trip_duration_) ==
    LET day_activities == select_activities_for_day(pois_, day, trip_duration_)
    IN [date |-> request_.start_date + day + 1,
        activities |-> day_activities,
        free_time_slots |-> create_free_time_slots(day_activities),
        notes |-> generate_day_notes(day_activities, day, trip_duration_)]

\* lines 238-243: DailySchedule(date=start_date + timedelta(days=day), ...)
DailyScheduleFor(request_, pois_, day, trip_duration_) ==
    LET day_activities == select_activities_for_day(pois_, day, trip_duration_)
    IN [date |-> request_.start_date + day,
        activities |-> day_activities,
        free_time_slots |-> create_free_time_slots(day_activities),
        notes |-> generate_day_notes(day_activities, day, trip_duration_)]

create_daily_schedules_consuming(request_, pois_, trip_duration_) ==
    [d \in 1..trip_duration_ |->
        DailyScheduleFor(request_,
                         SubSeq(pois_, IF d <= Len(pois_) THEN d ELSE 1,
                                Len(pois_)),
                         d - 1, trip_duration_)]

\* PlannerAgent.create_daily_schedules: `for day in range(trip_duration)`
create_daily_schedules(request_, pois_, trip_duration_) ==
    [d \in 1..trip_duration_ |->
        DailyScheduleFor(request_, pois_, d - 1, trip_duration_)]

(***************************************************************************)
(* Input domains                                                           *)
(***************************************************************************)
\* SearchRequest.  start_date is fixed at day 1; end_date ranges over days
\* before, on and after it.  travelers = 0 is a request whose field was
\* assigned after construction (pydantic does not validate assignment);
\* validate_request has a branch for it.
Budgets == {None, Some(0), Some(1000)}
Requests ==
    [destination : {"", "Los Angeles"}, start_date : {1},
     end_date : 0..(1 + MaxDays), budget : Budgets, travelers : {0, 1}]
\* The requests create_itinerary and the selection functions are called on:
\* end_date > start_date.
TripRequests ==
    [destination : {"Los Angeles"}, start_date : {1},
     end_date : 2..(1 + MaxDays), budget : Budgets, travelers : {1}]

\* Flight records (schemas.Flight: duration_minutes > 0, price >= 0).
FlightsOnOffer ==
    [airline : {"Delta", "United"}, price : {350, 420},
     duration_minutes : {210, 225}, departure_date : {1}]
ProvidedFlightKinds ==
    {[airline |-> "Delta", price |-> 350, duration_minutes |-> 210,
      departure_date |-> 1],
     [airline |-> "United", price |-> 420, duration_minutes |-> 225,
      departure_date |-> 2]}

\* Hotel records (schemas.Hotel: 0 <= rating <= 5, in tenths).
HotelsOnOffer ==
    [name : {"Hotel"}, rating : {25, 45}, price_per_night : {65, 150}]
ProvidedHotelKinds ==
    {[name |-> "Grand", rating |-> 45, price_per_night |-> 150],
     [name |-> "Inn", rating |-> 25, price_per_night |-> 65]}

\* PointOfInterest records (schemas.PointOfInterest: category an ActivityType,
\* price_range and duration_hours optional, duration_hours > 0 when set).
ProvidedPoiKinds ==
    {[name |-> "Market", category |-> "food", price_range |-> Some("$"),
      duration_hours |-> Some(3)],
     [name |-> "Museum", category |-> "cultural", price_range |-> Some("$$"),
      duration_hours |-> None]}
\* The flight candidate lists of a direct composition: none, one, and two
\* out of price order.
ComposeFlightLists ==
    {<< >>,
     <<[airline |-> "Delta", price |-> 350, duration_minutes |-> 210,
        departure_date |-> 1]>>,
     <<[airline |-> "United", price |-> 420, duration_minutes |-> 225,
        departure_date |-> 2],
       [airline |-> "Delta", price |-> 350, duration_minutes |-> 210,
        departure_date |-> 1]>>}

\* The POI candidates of a direct composition: a third category, that is in
\* no arrival or departure priority list.
ComposePoiKinds ==
    ProvidedPoiKinds
    \cup {[name |-> "Park", category |-> "outdoor", price_range |-> None,
           duration_hours |-> Some(10)]}
\* Activities handed to create_free_time_slots: no duration, 0.5 h, 2 h,
\* 3.5 h, 4 h and 8 h.
SlotActivities ==
    [name : {"Poi"}, category : {"cultural"}, price_range : {None},
     duration_hours : {None, Some(1), Some(4), Some(7), Some(8), Some(16)}]

NoFlights == [outbound |-> None, return |-> None]

\* request.preferences = {} (schemas.py line 192, default_factory=dict)
NoPreferences == [interests |-> << >>]
\* No external service has been asked.
NoLookups == [tavily |-> None, serpapi |-> None, llm |-> None]

(***************************************************************************)
(* PlannerAgent.process_request                                            *)
(***************************************************************************)
\* create_response(success=False, error_message=...)
FailureWithoutMessage(error_message) ==
    create_response("PlannerAgent", FALSE, None, None)
Failure(error_message) ==
    create_response("PlannerAgent", FALSE, None, Some(error_message))

\* What a provider's process_request returns: a failed response, or a
\* successful one carrying its normalized (possibly empty) list.
ProviderResponses(name, kinds) ==
    {create_response(name, FALSE, None, Some("search error"))}
    \cup {create_response(name, TRUE, data, None) :
              data \in SeqsUpTo(kinds, MaxProvided)}

FlightResponses == ProviderResponses("FlightAgent", ProvidedFlightKinds)
HotelResponses == ProviderResponses("HotelAgent", ProvidedHotelKinds)
PoiResponses == ProviderResponses("POIAgent", ProvidedPoiKinds)

NoResponses ==
    flight_response = None /\ hotel_response = None /\ poi_response = None

\* Nothing computed yet.
Unset ==
    /\ trip_duration = 0
    /\ selected_flights = NoFlights
    /\ selected_hotels = << >>
    /\ daily_schedules = << >>
    /\ itinerary = None
    /\ raised = FALSE
    /\ free_time_slots = << >>
    /\ response = None
    /\ is_valid = None
    /\ total_cost = None
    /\ preferences = NoPreferences
    /\ lookups = NoLookups
    /\ interests = << >>
    /\ candidates = << >>
    /\ normalized = << >>

Init ==
    /\ request \in Requests
    /\ pc = "start"
    /\ NoResponses
    /\ flights = << >> /\ hotels = << >> /\ pois = << >>
    /\ activities = << >>
    /\ Unset

\* lines 49-54
ValidateRequest ==
    /\ pc = "start"
    /\ IF validate_request(request)
       THEN pc' = "search_flights" /\ UNCHANGED response
       ELSE pc' = "done" /\ response' = Some(Failure("Invalid search request"))
    /\ UNCHANGED <<request, flight_response, hotel_response, poi_response,
                   flights, hotels, pois, trip_duration, selected_flights,
                   selected_hotels, daily_schedules, itinerary, raised,
                   activities, free_time_slots, validation,
                   provider>>

\* line 59
SearchFlights ==
    /\ pc = "search_flights"
    /\ \E r \in FlightResponses :
           flight_response' = Some(r)
    /\ pc' = "search_hotels"
    /\ UNCHANGED <<request, hotel_response, poi_response,
                   flights, hotels, pois, trip_duration, selected_flights,
                   selected_hotels, daily_schedules, itinerary, raised,
                   activities, free_time_slots, response, validation,
                   provider>>

\* line 64
SearchHotels ==
    /\ pc = "search_hotels"
    /\ \E r \in HotelResponses :
           hotel_response' = Some(r)
    /\ pc' = "search_pois"
    /\ UNCHANGED <<request, flight_response, poi_response,
                   flights, hotels, pois, trip_duration, selected_flights,
                   selected_hotels, daily_schedules, itinerary, raised,
                   activities, free_time_slots, response, validation,
                   provider>>

\* line 69
SearchPois ==
    /\ pc = "search_pois"
    /\ \E r \in PoiResponses :
           poi_response' = Some(r)
    /\ pc' = "call_create_itinerary"
    /\ UNCHANGED <<request, flight_response, hotel_response,
                   flights, hotels, pois, trip_duration, selected_flights,
                   selected_hotels, daily_schedules, itinerary, raised,
                   activities, free_time_slots, response, validation,
                   provider>>

\* lines 76-78: `X_response.data if X_response.success else []`
DataOrNothing(resp) == << >>
DataOrEmpty(resp) == IF resp.success THEN resp.data ELSE << >>

\* lines 74-79: the call of create_itinerary
CallCreateItinerary ==
    /\ pc = "call_create_itinerary"
    /\ flights' = DataOrEmpty(Val(flight_response))
    /\ hotels' = DataOrEmpty(Val(hotel_response))
    /\ pois' = DataOrEmpty(Val(poi_response))
    /\ pc' = "create_itinerary"
    /\ UNCHANGED <<request, flight_response, hotel_response, poi_response,
                   trip_duration, selected_flights,
                   selected_hotels, daily_schedules, itinerary, raised,
                   activities, free_time_slots, response, validation,
                   provider>>

\* PlannerAgent.create_itinerary, lines 115-150: the selections, then the
\* Itinerary constructor; a ValidationError is logged and re-raised.
CreateItinerary ==
    /\ pc = "create_itinerary"
    /\ LET duration == request.end_date - request.start_date
           best_flights == select_best_flights(flights)
           best_hotels == select_best_hotels(hotels, request, duration)
           schedules == create_daily_schedules(request, pois, duration)
           built == Itinerary(request.destination, request.start_date,
                              request.end_date, duration,
                              best_flights.outbound, best_flights.return,
                              best_hotels, schedules, request.budget)
       IN /\ trip_duration' = duration
          /\ selected_flights' = best_flights
          /\ selected_hotels' = best_hotels
          /\ daily_schedules' = schedules
          /\ itinerary' = built
          /\ raised' = IsNone(built)
    /\ pc' = "created"
    /\ UNCHANGED <<request, flight_response, hotel_response, poi_response,
                   flights, hotels, pois, activities, free_time_slots,
                   response, validation,
                   provider>>

\* lines 81-94: the success response, or the `except Exception` response
Respond ==
    /\ pc = "created"
    /\ response' = IF raised
                   THEN Some(Failure("Travel planning error"))
                   ELSE Some(create_response("PlannerAgent", TRUE,
                                             itinerary, None))
    /\ pc' = "done"
    /\ UNCHANGED <<request, flight_response, hotel_response, poi_response,
                   flights, hotels, pois, trip_duration, selected_flights,
                   selected_hotels, daily_schedules, itinerary, raised,
                   activities, free_time_slots, validation,
                   provider>>

Next ==
    \/ ValidateRequest
    \/ SearchFlights
    \/ SearchHotels
    \/ SearchPois
    \/ CallCreateItinerary
    \/ CreateItinerary
    \/ Respond

Spec == Init /\ [][Next]_vars

(***************************************************************************)
(* create_itinerary called directly on any trip request and any candidate  *)
(* lists.                                                                  *)
(***************************************************************************)
InitCompose ==
    /\ request \in TripRequests
    /\ pc = "create_itinerary"
    /\ NoResponses
    /\ flights \in ComposeFlightLists
    /\ hotels \in SeqsUpTo(ProvidedHotelKinds, MaxCandidates)
    /\ pois \in SeqsUpTo(ComposePoiKinds, MaxCandidates)
    /\ activities = << >>
    /\ Unset

SpecCompose == InitCompose /\ [][CreateItinerary]_vars

(***************************************************************************)
(* select_best_flights applied to any candidate list.                      *)
(***************************************************************************)
InitFlights ==
    /\ request \in {r \in TripRequests : r.end_date = 2 /\ r.budget = None}
    /\ pc = "select_best_flights"
    /\ NoResponses
    /\ flights \in SeqsUpTo(FlightsOnOffer, MaxFlights)
    /\ hotels = << >> /\ pois = << >>
    /\ activities = << >>
    /\ Unset

\* line 120
SelectBestFlights ==
    /\ pc = "select_best_flights"
    /\ selected_flights' = select_best_flights(flights)
    /\ flights' = CallersList(flights, SortedFlights(flights))
    /\ pc' = "flights_selected"
    /\ UNCHANGED <<request, flight_response, hotel_response, poi_response,
                   hotels, pois, trip_duration, selected_hotels,
                   daily_schedules, itinerary, raised, activities,
                   free_time_slots, response, validation,
                   provider>>

SpecFlights == InitFlights /\ [][SelectBestFlights]_vars

(***************************************************************************)
(* select_best_hotels applied to any trip request and candidate list.      *)
(***************************************************************************)
InitHotels ==
    /\ request \in TripRequests
    /\ pc = "select_best_hotels"
    /\ NoResponses
    /\ flights = << >>
    /\ hotels \in SeqsUpTo(HotelsOnOffer, MaxHotels)
    /\ pois = << >>
    /\ activities = << >>
    /\ Unset

\* lines 117 and 123
SelectBestHotels ==
    /\ pc = "select_best_hotels"
    /\ trip_duration' = request.end_date - request.start_date
    /\ selected_hotels' = select_best_hotels(hotels, request, trip_duration')
    /\ hotels' = CallersList(hotels,
                             SortedHotels(BudgetFiltered(hotels, request,
                                                         trip_duration')))
    /\ pc' = "hotels_selected"
    /\ UNCHANGED <<request, flight_response, hotel_response, poi_response,
                   flights, pois, selected_flights,
                   daily_schedules, itinerary, raised, activities,
                   free_time_slots, response, validation,
                   provider>>

SpecHotels == InitHotels /\ [][SelectBestHotels]_vars

(***************************************************************************)
(* create_free_time_slots applied to any activity list.                    *)
(***************************************************************************)
InitSlots ==
    /\ request \in {r \in TripRequests : r.end_date = 2 /\ r.budget = None}
    /\ pc = "create_free_time_slots"
    /\ NoResponses
    /\ flights = << >> /\ hotels = << >> /\ pois = << >>
    /\ activities \in SeqsUpTo(SlotActivities, MaxActivities)
    /\ Unset

\* line 241
CreateFreeTimeSlots ==
    /\ pc = "create_free_time_slots"
    /\ free_time_slots' = create_free_time_slots(activities)
    /\ pc' = "slots_created"
    /\ UNCHANGED <<request, flight_response, hotel_response, poi_response,
                   flights, hotels, pois, trip_duration, selected_flights,
                   selected_hotels, daily_schedules, itinerary, raised,
                   activities, response, validation,
                   provider>>

SpecSlots == InitSlots /\ [][CreateFreeTimeSlots]_vars

(***************************************************************************)
(* PlannerAgent.calculate_total_cost and PlannerAgent.validate_itinerary   *)
(***************************************************************************)
\* lines 430-436: the estimate of one activity from its price_range
PriceRangeFlat(price_range) ==
    IF price_range \in {Some("$"), Some("$$"), Some("$$$")} THEN 20 ELSE 0
PriceRangeCost(price_range) ==
    IF price_range = Some("$") THEN 20
    ELSE IF price_range = Some("$$") THEN 50
    ELSE IF price_range = Some("$$$") THEN 100
    ELSE 0

\* lines 418-421: `if itinerary.<leg>: total_cost += itinerary.<leg>.price`
LegCost(leg) == IF IsNone(leg) THEN 0 ELSE Val(leg).price

\* lines 424-425: for hotel in itinerary.hotels
RECURSIVE HotelCosts(_, _)
HotelCosts(hotels_, total_days) ==
    IF hotels_ = << >> THEN 0
    ELSE Head(hotels_).price_per_night * total_days
         + HotelCosts(Tail(hotels_), total_days)

\* lines 429-436: for activity in daily_schedule.activities
RECURSIVE ActivityCosts(_)
ActivityCosts(activities_) ==
    IF activities_ = << >> THEN 0
    ELSE PriceRangeCost(Head(activities_).price_range)
         + ActivityCosts(Tail(activities_))

\* line 428: for daily_schedule in itinerary.daily_schedules
RECURSIVE ScheduleCosts(_)
ScheduleCosts(daily_schedules_) ==
    IF daily_schedules_ = << >> THEN 0
    ELSE ActivityCosts(Head(daily_schedules_).activities)
         + ScheduleCosts(Tail(daily_schedules_))

\* lines 405-438
calculate_total_cost(it) ==
    LegCost(it.outbound_flight)
    + LegCost(it.return_flight)
    + HotelCosts(it.hotels, it.total_days)
    + ScheduleCosts(it.daily_schedules)

\* line 392-394: `if itinerary.total_budget:` then total_cost > total_budget
OverBudgetInclusive(it) ==
    /\ Truthy(it.total_budget)
    /\ calculate_total_cost(it) >= Val(it.total_budget)
OverBudget(it) ==
    /\ Truthy(it.total_budget)
    /\ calculate_total_cost(it) > Val(it.total_budget)

\* line 375: `if not itinerary.hotels:`
HotelsUnchecked(it) == FALSE
NoHotels(it) == it.hotels = << >>

\* lines 380-382: `if itinerary.outbound_flight:` then the departure date
\* is compared with start_date
DepartureDayRequired(it) ==
    \/ IsNone(it.outbound_flight)
    \/ Val(it.outbound_flight).departure_date /= it.start_date
WrongDepartureDay(it) ==
    /\ ~IsNone(it.outbound_flight)
    /\ Val(it.outbound_flight).departure_date /= it.start_date

\* line 387: len(itinerary.daily_schedules) != itinerary.total_days
WrongDayCount(it) == Len(it.daily_schedules) /= it.total_days

\* lines 363-403; the except branch (line 401) returns False as well, and no
\* step of the try block fails on a schema-valid Itinerary
validate_itinerary(it) ==
    IF NoHotels(it) THEN FALSE
    ELSE IF WrongDepartureDay(it) THEN FALSE
    ELSE IF WrongDayCount(it) THEN FALSE
    ELSE IF OverBudget(it) THEN FALSE
    ELSE TRUE

\* Itineraries handed to the two checks: every record schemas.Itinerary
\* accepts over the flights, hotels and activities below.
CheckedFlights ==
    {None} \cup {Some(f) : f \in ProvidedFlightKinds}
CheckedReturnFlights ==
    {None,
     Some([airline |-> "Delta", price |-> 350, duration_minutes |-> 210,
           departure_date |-> 1])}
CheckedActivityLists ==
    {<<[name |-> "Market", category |-> "food", price_range |-> Some("$"),
        duration_hours |-> Some(3)],
       [name |-> "Museum", category |-> "cultural",
        price_range |-> Some("$$"), duration_hours |-> None],
       [name |-> "Gallery", category |-> "cultural",
        price_range |-> Some("$$$"), duration_hours |-> Some(4)]>>,
     <<[name |-> "Park", category |-> "outdoor", price_range |-> None,
        duration_hours |-> Some(10)],
       [name |-> "Beach", category |-> "outdoor",
        price_range |-> Some("Free"), duration_hours |-> Some(6)]>>}
CheckedSchedules ==
    {[date |-> 1, activities |-> a,
      free_time_slots |-> create_free_time_slots(a),
      notes |-> generate_day_notes(a, 1, MaxDays)] :
        a \in CheckedActivityLists}
\* total_budget is an unconstrained Optional[float] (schemas.py line 156)
CheckedBudgets == {None, Some(0), Some(130), Some(1000)}
CheckedItineraries ==
    LET built ==
            {Itinerary("Los Angeles", 1, e, t, out, ret, hs, ds, b) :
                e \in 1..(1 + MaxDays),
                t \in 1..(1 + MaxDays),
                out \in CheckedFlights,
                ret \in CheckedReturnFlights,
                hs \in SeqsUpTo(ProvidedHotelKinds, 2),
                ds \in SeqsUpTo(CheckedSchedules, 1 + MaxDays),
                b \in CheckedBudgets}
    IN {Val(i) : i \in built \ {None}}

InitValidate ==
    /\ request \in {r \in TripRequests : r.end_date = 2 /\ r.budget = None}
    /\ pc = "calculate_total_cost"
    /\ NoResponses
    /\ flights = << >> /\ hotels = << >> /\ pois = << >>
    /\ activities = << >>
    /\ trip_duration = 0
    /\ selected_flights = NoFlights
    /\ selected_hotels = << >>
    /\ daily_schedules = << >>
    /\ itinerary \in {Some(i) : i \in CheckedItineraries}
    /\ raised = FALSE
    /\ free_time_slots = << >>
    /\ response = None
    /\ is_valid = None
    /\ total_cost = None
    /\ preferences = NoPreferences
    /\ lookups = NoLookups
    /\ interests = << >>
    /\ candidates = << >>
    /\ normalized = << >>

\* get_itinerary_summary, line 450
CalculateTotalCost ==
    /\ pc = "calculate_total_cost"
    /\ total_cost' = Some(calculate_total_cost(Val(itinerary)))
    /\ pc' = "validate_itinerary"
    /\ UNCHANGED <<request, flight_response, hotel_response, poi_response,
                   flights, hotels, pois, trip_duration, selected_flights,
                   selected_hotels, daily_schedules, itinerary, raised,
                   activities, free_time_slots, response, is_valid,
                   provider>>

\* lines 363-403
ValidateItinerary ==
    /\ pc = "validate_itinerary"
    /\ is_valid' = Some(validate_itinerary(Val(itinerary)))
    /\ pc' = "validated"
    /\ UNCHANGED <<request, flight_response, hotel_response, poi_response,
                   flights, hotels, pois, trip_duration, selected_flights,
                   selected_hotels, daily_schedules, itinerary, raised,
                   activities, free_time_slots, response, total_cost,
                   provider>>

NextValidate == CalculateTotalCost \/ ValidateItinerary

SpecValidate == InitValidate /\ [][NextValidate]_vars

(***************************************************************************)
(* The provider agents: flight_agent.py, hotel_agent.py, poi_agent.py.     *)
(* lookups.tavily and lookups.serpapi are None when the service call       *)
(* raises and Some(results) when it answers; lookups.llm is None when      *)
(* call_llm raises (base_agent.py line 125) and Some(text) otherwise, the  *)
(* text being a sequence of tokens.                                        *)
(***************************************************************************)
\* search_tavily / search_serpapi: `except Exception: return []`
LookupResults(outcome) == IF IsNone(outcome) THEN << >> ELSE Val(outcome)

\* json.loads of the text between the first "{" and the last "}": a dict
\* when that text is one object, JSONDecodeError otherwise.
json_loads(json_str) ==
    IF json_str = <<"{", "}">> THEN Some([type |-> "dict", items |-> << >>])
    ELSE None

\* BaseAgent.extract_json_from_response
extract_json_from_response(llm_text) ==
    LET opens == {i \in 1..Len(llm_text) : llm_text[i] = "{"}
        closes == {i \in 1..Len(llm_text) : llm_text[i] = "}"}
    IN IF opens /= {} /\ closes /= {}
       THEN LET start_idx == CHOOSE i \in opens : \A j \in opens : i <= j
                end_idx == CHOOSE i \in closes : \A j \in closes : j <= i
            IN json_loads(SubSeq(llm_text, start_idx, end_idx))
       ELSE None

\* `if json_data and isinstance(json_data, list): return json_data`
UsableMock(json_data) ==
    /\ ~IsNone(json_data)
    /\ Val(json_data).type = "list"
    /\ Val(json_data).items /= << >>

(***************************************************************************)
(* FlightAgent                                                             *)
(***************************************************************************)
\* FlightAgent.create_mock_flight_from_content; its departure_time is the
\* fixed 2024-01-15, day 0 here.
create_mock_flight_from_content(result) ==
    [airline |-> "Mock Airlines", price |-> 350, duration_minutes |-> 210,
     departure_time |-> Some(0)]

\* FlightAgent.extract_flight_from_serpapi: flight.get(key, default)
extract_flight_from_serpapi(flight) ==
    [airline |-> flight.airline,
     price |-> IF IsNone(flight.price) THEN 0 ELSE Val(flight.price),
     duration_minutes |-> IF IsNone(flight.duration_minutes) THEN 0
                          ELSE Val(flight.duration_minutes),
     departure_time |-> flight.departure_time]

\* FlightAgent.get_hardcoded_mock_flights
get_hardcoded_mock_flights(request_) ==
    <<[airline |-> "Delta Airlines", price |-> 350,
       duration_minutes |-> 210, departure_time |-> Some(request_.start_date)],
      [airline |-> "United Airlines", price |-> 420,
       duration_minutes |-> 225, departure_time |-> Some(request_.start_date)],
      [airline |-> "American Airlines", price |-> 380,
       duration_minutes |-> 210, departure_time |-> Some(request_.start_date)]>>

\* FlightAgent.generate_mock_flights
generate_mock_flights(request_, llm) ==
    IF IsNone(llm) THEN get_hardcoded_mock_flights(request_)
    ELSE LET json_data == extract_json_from_response(Val(llm))
         IN IF UsableMock(json_data) THEN Val(json_data).items
            ELSE get_hardcoded_mock_flights(request_)

\* FlightAgent.search_flights
search_flights(request_, lookups_) ==
    LET tavily_results == LookupResults(lookups_.tavily)
        serpapi_results == LookupResults(lookups_.serpapi)
        found ==
            [i \in 1..Len(tavily_results) |->
                create_mock_flight_from_content(tavily_results[i])]
            \o [i \in 1..Len(serpapi_results) |->
                   extract_flight_from_serpapi(serpapi_results[i])]
    IN IF found = << >> THEN generate_mock_flights(request_, lookups_.llm)
       ELSE found

\* normalize_flights lines 358-371: Flight(...) of one record; None when
\* datetime.fromisoformat or a validator of schemas.Flight raises.
FlightOf(flight_data) ==
    IF IsNone(flight_data.departure_time) THEN None
    ELSE IF flight_data.duration_minutes <= 0 THEN None
    ELSE IF flight_data.price < 0 THEN None
    ELSE Some([airline |-> flight_data.airline,
               price |-> flight_data.price,
               duration_minutes |-> flight_data.duration_minutes,
               departure_date |-> Val(flight_data.departure_time)])

\* The records a constructor accepted, in their order.
Accepted(built) ==
    LET kept == SelectSeq(built, LAMBDA o : ~IsNone(o))
    IN [i \in 1..Len(kept) |-> Val(kept[i])]

\* line 380: key=lambda x: (x.price, x.duration_minutes)
FlightSortKeyLess(a, b) ==
    \/ a.price < b.price
    \/ (a.price = b.price /\ a.duration_minutes < b.duration_minutes)

\* FlightAgent.normalize_flights
normalize_flights(flights_) ==
    LET normalized_flights ==
            Accepted([i \in 1..Len(flights_) |-> FlightOf(flights_[i])])
    IN Sorted(normalized_flights,
              [i \in DOMAIN normalized_flights |->
                  [j \in DOMAIN normalized_flights |->
                      FlightSortKeyLess(normalized_flights[i],
                                        normalized_flights[j])]])

\* FlightAgent.process_request lines 59-75: from the search result to the
\* response
FlightAgentAnswer(request_, found) ==
    IF found = << >>
    THEN create_response("FlightAgent", FALSE, None,
                         Some("No flights found for the specified criteria"))
    ELSE create_response("FlightAgent", TRUE, normalize_flights(found), None)

\* FlightAgent.process_request lines 36-82
FlightAgent_process_request(request_, lookups_) ==
    IF ~validate_request(request_)
    THEN create_response("FlightAgent", FALSE, None,
                         Some("Invalid search request"))
    ELSE FlightAgentAnswer(request_, search_flights(request_, lookups_))

(***************************************************************************)
(* HotelAgent                                                              *)
(***************************************************************************)
\* HotelAgent.create_mock_hotel_from_content
create_mock_hotel_from_content(result) ==
    [name |-> "Mock Hotel", rating |-> Some(40),
     price_per_night |-> Some(150)]

\* HotelAgent.extract_hotel_from_serpapi: hotel.get(key, default); a key
\* that is present with a null value stays null (None)
extract_hotel_from_serpapi(hotel) ==
    [name |-> hotel.name,
     rating |-> IF "rating" \in DOMAIN hotel THEN hotel.rating
                ELSE Some(0),
     price_per_night |-> IF "price_per_night" \in DOMAIN hotel
                         THEN hotel.price_per_night
                         ELSE Some(0)]

\* HotelAgent.get_hardcoded_mock_hotels
get_hardcoded_mock_hotels(request_) ==
    <<[name |-> "Grand Hotel & Spa", rating |-> Some(45),
       price_per_night |-> Some(350)],
      [name |-> "Comfort Inn Downtown", rating |-> Some(38),
       price_per_night |-> Some(120)],
      [name |-> "Budget Motel Express", rating |-> Some(25),
       price_per_night |-> Some(65)],
      [name |-> "Boutique Hotel Central", rating |-> Some(42),
       price_per_night |-> Some(220)],
      [name |-> "Resort & Conference Center", rating |-> Some(47),
       price_per_night |-> Some(450)]>>

\* HotelAgent.generate_mock_hotels
generate_mock_hotels(request_, llm) ==
    IF IsNone(llm) THEN get_hardcoded_mock_hotels(request_)
    ELSE LET json_data == extract_json_from_response(Val(llm))
         IN IF UsableMock(json_data) THEN Val(json_data).items
            ELSE get_hardcoded_mock_hotels(request_)

\* HotelAgent.search_hotels
search_hotels(request_, lookups_) ==
    LET tavily_results == LookupResults(lookups_.tavily)
        serpapi_results == LookupResults(lookups_.serpapi)
        found ==
            [i \in 1..Len(tavily_results) |->
                create_mock_hotel_from_content(tavily_results[i])]
            \o [i \in 1..Len(serpapi_results) |->
                   extract_hotel_from_serpapi(serpapi_results[i])]
    IN IF found = << >> THEN generate_mock_hotels(request_, lookups_.llm)
       ELSE found

\* apply_filters lines 392-395: the budget filter of one hotel
OverTripBudget(hotel, request_) ==
    /\ Truthy(request_.budget)
    /\ Val(hotel.price_per_night) * (request_.end_date - request_.start_date)
           > Val(request_.budget)

\* apply_filters lines 392-400: the step of the loop body that raises
\* TypeError, None * int on line 393 or None < int on line 399; the loop
\* has no try block
FilterRaises(hotel, request_) ==
    IF Truthy(request_.budget) /\ IsNone(hotel.price_per_night) THEN TRUE
    ELSE IF OverTripBudget(hotel, request_) THEN FALSE
    ELSE IsNone(hotel.rating)

\* HotelAgent.apply_filters lines 391-409; preferences carries neither
\* min_rating (default 0) nor required_amenities (default [])
PassesFilters(hotel, request_) ==
    /\ ~OverTripBudget(hotel, request_)
    /\ ~(Val(hotel.rating) < 0)

\* HotelAgent.apply_filters: None when the loop raised, else the list kept
apply_filters(hotels_, request_) ==
    IF \E i \in 1..Len(hotels_) : FilterRaises(hotels_[i], request_)
    THEN None
    ELSE Some(SelectSeq(hotels_,
                        LAMBDA hotel : PassesFilters(hotel, request_)))

\* normalize_hotels lines 431-444: Hotel(...) of one record; None when
\* float(None) raises or a validator of schemas.Hotel raises (rating
\* outside 0..5).
HotelOf(hotel_data) ==
    IF IsNone(hotel_data.rating) \/ IsNone(hotel_data.price_per_night)
    THEN None
    ELSE IF Val(hotel_data.rating) < 0 \/ Val(hotel_data.rating) > 50
    THEN None
    ELSE Some([name |-> hotel_data.name,
               rating |-> Val(hotel_data.rating),
               price_per_night |-> Val(hotel_data.price_per_night)])

\* line 452: key=lambda x: (-x.rating, x.price_per_night)
HotelSortKeyLess(a, b) ==
    \/ a.rating > b.rating
    \/ (a.rating = b.rating /\ a.price_per_night < b.price_per_night)

\* HotelAgent.normalize_hotels
normalize_hotels(hotels_) ==
    LET normalized_hotels ==
            Accepted([i \in 1..Len(hotels_) |-> HotelOf(hotels_[i])])
    IN Sorted(normalized_hotels,
              [i \in DOMAIN normalized_hotels |->
                  [j \in DOMAIN normalized_hotels |->
                      HotelSortKeyLess(normalized_hotels[i],
                                       normalized_hotels[j])]])

\* HotelAgent.process_request lines 62-88: from the search result to the
\* response; an error of apply_filters lands in the except branch
HotelAgentAnswer(request_, found) ==
    IF found = << >>
    THEN create_response("HotelAgent", FALSE, None,
                         Some("No hotels found for the specified criteria"))
    ELSE LET filtered_hotels == apply_filters(found, request_)
         IN IF IsNone(filtered_hotels)
            THEN create_response("HotelAgent", FALSE, None,
                                 Some("Hotel search error"))
            ELSE create_response("HotelAgent", TRUE,
                                 normalize_hotels(Val(filtered_hotels)), None)

\* HotelAgent.process_request lines 36-88
HotelAgent_process_request(request_, lookups_) ==
    IF ~validate_request(request_)
    THEN create_response("HotelAgent", FALSE, None,
                         Some("Invalid search request"))
    ELSE HotelAgentAnswer(request_, search_hotels(request_, lookups_))

(***************************************************************************)
(* POIAgent                                                                *)
(***************************************************************************)
\* schemas.ActivityType
ActivityTypes ==
    {"cultural", "outdoor", "food", "shopping", "entertainment",
     "historical", "nature"}

\* str.lower() over the interest words of this model
Lower(word) ==
    CASE word = "Museum" -> "museum"
      [] word = "Shopping" -> "shopping"
      [] OTHER -> word

\* extract_interests lines 105-120: interest_mapping.get(word, word)
interest_mapping(word) ==
    CASE word \in {"culture", "museum", "art"} -> "cultural"
      [] word = "history" -> "historical"
      [] word = "nature" -> "nature"
      [] word \in {"outdoor", "hiking", "beach", "sports"} -> "outdoor"
      [] word \in {"food", "restaurant"} -> "food"
      [] word = "shopping" -> "shopping"
      [] word \in {"entertainment", "nightlife"} -> "entertainment"
      [] OTHER -> word

\* POIAgent.extract_interests
extract_interests(preferences_) ==
    LET given == IF preferences_.interests = << >>
                 THEN <<"cultural", "outdoor", "food", "entertainment">>
                 ELSE preferences_.interests
        mapped == [i \in 1..Len(given) |-> interest_mapping(Lower(given[i]))]
        mapped_interests == SelectSeq(mapped, LAMBDA m : m \in ActivityTypes)
    IN IF mapped_interests /= << >> THEN mapped_interests
       ELSE <<"cultural", "outdoor">>

\* POIAgent.create_mock_poi_from_content
create_mock_poi_from_content(result, interest) ==
    [name |-> <<"Mock", interest, "POI">>, category |-> interest,
     rating |-> Some(40), price_range |-> Some("$$"),
     duration_hours |-> Some(2 * UnitsPerHour)]

\* POIAgent.extract_poi_from_serpapi: result.get(key, default)
extract_poi_from_serpapi(result, interest) ==
    [name |-> result.title, category |-> interest,
     rating |-> result.rating, price_range |-> result.price_range,
     duration_hours |-> IF "duration_hours" \in DOMAIN result
                        THEN result.duration_hours
                        ELSE Some(2 * UnitsPerHour)]

\* search_pois lines 147-158: the two lookups of one interest
FoundFor(interest, lookups_) ==
    LET tavily_results == LookupResults(lookups_.tavily)
        serpapi_results == LookupResults(lookups_.serpapi)
    IN [i \in 1..Len(tavily_results) |->
           create_mock_poi_from_content(tavily_results[i], interest)]
       \o [i \in 1..Len(serpapi_results) |->
              extract_poi_from_serpapi(serpapi_results[i], interest)]

\* search_pois line 146: for interest in interests
RECURSIVE FoundForAll(_, _)
FoundForAll(interests_, lookups_) ==
    IF interests_ = << >> THEN << >>
    ELSE FoundFor(Head(interests_), lookups_)
         \o FoundForAll(Tail(interests_), lookups_)

\* POIAgent.get_hardcoded_mock_pois
get_hardcoded_mock_pois(request_, interests_) ==
    (IF "cultural" \in Range(interests_)
     THEN <<[name |-> "City Museum of Art", category |-> "cultural",
             rating |-> Some(46), price_range |-> Some("$$"),
             duration_hours |-> Some(6)],
            [name |-> "Historic Downtown Theater", category |-> "cultural",
             rating |-> Some(43), price_range |-> Some("$$"),
             duration_hours |-> Some(5)]>>
     ELSE << >>)
    \o (IF "outdoor" \in Range(interests_)
        THEN <<[name |-> "Central Park Gardens", category |-> "outdoor",
                rating |-> Some(44), price_range |-> Some("$"),
                duration_hours |-> Some(4)],
               [name |-> "Riverside Hiking Trail", category |-> "outdoor",
                rating |-> Some(47), price_range |-> Some("Free"),
                duration_hours |-> Some(8)]>>
        ELSE << >>)
    \o (IF "food" \in Range(interests_)
        THEN <<[name |-> "Local Food Market", category |-> "food",
                rating |-> Some(45), price_range |-> Some("$$"),
                duration_hours |-> Some(3)],
               [name |-> "Famous Restaurant Row", category |-> "food",
                rating |-> Some(42), price_range |-> Some("$$$"),
                duration_hours |-> Some(4)]>>
        ELSE << >>)
    \o (IF "entertainment" \in Range(interests_)
        THEN <<[name |-> "Downtown Entertainment District",
                category |-> "entertainment", rating |-> Some(41),
                price_range |-> Some("$$"), duration_hours |-> Some(6)]>>
        ELSE << >>)

\* POIAgent.generate_mock_pois
generate_mock_pois(request_, interests_, llm) ==
    IF IsNone(llm) THEN get_hardcoded_mock_pois(request_, interests_)
    ELSE LET json_data == extract_json_from_response(Val(llm))
         IN IF UsableMock(json_data) THEN Val(json_data).items
            ELSE get_hardcoded_mock_pois(request_, interests_)

\* POIAgent.search_pois
search_pois(request_, interests_, lookups_) ==
    LET found == FoundForAll(interests_, lookups_)
    IN IF found = << >>
       THEN generate_mock_pois(request_, interests_, lookups_.llm)
       ELSE found

\* POIAgent.categorize_poi_by_content; no name of this model holds one of
\* its keywords, which leaves the last branch (line 537)
categorize_poi_by_content(poi, interests_) ==
    IF interests_ /= << >> THEN interests_[1] ELSE "cultural"

\* POIAgent.categorize_pois
categorize_pois(pois_, interests_) ==
    [i \in 1..Len(pois_) |->
        IF pois_[i].category \in ActivityTypes THEN pois_[i]
        ELSE [pois_[i] EXCEPT
                 !.category = categorize_poi_by_content(pois_[i], interests_)]]

\* normalize_pois lines 555-569: PointOfInterest(...) of one record; None
\* when ActivityType(...) or a validator of schemas.PointOfInterest raises.
PointOfInterestOf(poi_data) ==
    IF poi_data.category \notin ActivityTypes THEN None
    ELSE IF /\ ~IsNone(poi_data.rating)
            /\ (Val(poi_data.rating) < 0 \/ Val(poi_data.rating) > 50)
         THEN None
    ELSE IF /\ ~IsNone(poi_data.duration_hours)
            /\ Val(poi_data.duration_hours) <= 0
         THEN None
    ELSE Some(poi_data)

\* `x.rating or 0`, `x.duration_hours or 0`
OrZero(o) == IF IsNone(o) THEN 0 ELSE Val(o)

\* line 578: key=lambda x: (x.rating or 0, x.duration_hours or 0),
\* reverse=True
PoiSortKeyRatingOnly(a, b) == OrZero(a.rating) > OrZero(b.rating)
PoiSortKeyLess(a, b) ==
    \/ OrZero(a.rating) > OrZero(b.rating)
    \/ /\ OrZero(a.rating) = OrZero(b.rating)
       /\ OrZero(a.duration_hours) > OrZero(b.duration_hours)

\* POIAgent.normalize_pois
normalize_pois(pois_) ==
    LET normalized_pois ==
            Accepted([i \in 1..Len(pois_) |-> PointOfInterestOf(pois_[i])])
    IN Sorted(normalized_pois,
              [i \in DOMAIN normalized_pois |->
                  [j \in DOMAIN normalized_pois |->
                      PoiSortKeyLess(normalized_pois[i],
                                     normalized_pois[j])]])

\* POIAgent.process_request lines 61-80: from the search result to the
\* response
POIAgentAnswer(interests_, found) ==
    IF found = << >>
    THEN create_response("POIAgent", FALSE, None,
                         Some("No points of interest found"))
    ELSE create_response("POIAgent", TRUE,
                         normalize_pois(categorize_pois(found, interests_)),
                         None)

\* POIAgent.process_request lines 35-87
POIAgent_process_request(request_, preferences_, lookups_) ==
    IF ~validate_request(request_)
    THEN create_response("POIAgent", FALSE, None,
                         Some("Invalid search request"))
    ELSE LET interests_ == extract_interests(preferences_)
         IN POIAgentAnswer(interests_,
                           search_pois(request_, interests_, lookups_))

(***************************************************************************)
(* What the external services can answer.                                  *)
(***************************************************************************)
\* call_llm's reply: prose, one JSON object, a JSON array of one object, a
\* JSON array of two.
LlmTexts ==
    {<<"Sorry">>, <<"{", "}">>, <<"[", "{", "}", "]">>,
     <<"[", "{", "}", ",", "{", "}", "]">>}
LlmOutcomes == {None} \cup {Some(t) : t \in LlmTexts}

\* tavily_client.search: raises, or answers with a list of results
TavilyOutcomes == {None, Some(<< >>), Some(<<"result">>)}

\* GoogleSearch(...).get_dict()["flight_results"]
SerpapiFlightResults ==
    {[airline |-> "Delta", price |-> Some(350),
      duration_minutes |-> Some(210), departure_time |-> Some(1)],
     [airline |-> "Alaska", price |-> Some(350),
      duration_minutes |-> Some(180), departure_time |-> Some(1)],
     [airline |-> "Spirit", price |-> Some(99),
      duration_minutes |-> None, departure_time |-> Some(1)],
     [airline |-> "United", price |-> Some(420),
      duration_minutes |-> Some(225), departure_time |-> None]}
\* GoogleSearch(...).get_dict()["hotel_results"]
SerpapiHotelResults ==
    {[name |-> "Grand", rating |-> Some(45), price_per_night |-> Some(150)],
     [name |-> "Plaza", rating |-> Some(45), price_per_night |-> Some(120)],
     [name |-> "Inn", price_per_night |-> Some(65)],
     [name |-> "Palace", rating |-> Some(55)],
     [name |-> "Hostel", rating |-> None, price_per_night |-> Some(40)]}
\* GoogleSearch(...).get_dict()["organic_results"]
SerpapiPoiResults ==
    {[title |-> "Museum", rating |-> Some(45), price_range |-> Some("$$"),
      duration_hours |-> Some(6)],
     [title |-> "Market", rating |-> None, price_range |-> Some("$")],
     [title |-> "Park", rating |-> Some(45), price_range |-> None,
      duration_hours |-> None],
     [title |-> "Kiosk", rating |-> Some(30), price_range |-> None,
      duration_hours |-> Some(0)]}

\* search_serpapi: raises, or answers with a list of results (shorter here
\* than the 5, 10 and 8 results the agents keep)
SerpapiOutcomes(results) ==
    {None} \cup {Some(l) : l \in SeqsUpTo(results, MaxProvided)}
Lookups(results) ==
    [tavily : TavilyOutcomes, serpapi : SerpapiOutcomes(results),
     llm : LlmOutcomes]
FlightLookups == Lookups(SerpapiFlightResults)
HotelLookups == Lookups(SerpapiHotelResults)
PoiLookups == Lookups(SerpapiPoiResults)

\* request.preferences["interests"]
PreferenceChoices ==
    {[interests |-> l] :
        l \in {<< >>, <<"Museum">>, <<"food", "nightlife">>, <<"Shopping">>,
               <<"history", "nature">>, <<"skiing">>,
               <<"shopping", "hiking">>}}

(***************************************************************************)
(* The search step of each provider, applied to any answer of the          *)
(* external services.                                                      *)
(***************************************************************************)
InitSearch ==
    /\ request \in {r \in TripRequests : r.budget = None}
    /\ \/ /\ pc = "search_flights_step"
          /\ lookups \in FlightLookups
          /\ preferences = NoPreferences
       \/ /\ pc = "search_hotels_step"
          /\ lookups \in HotelLookups
          /\ preferences = NoPreferences
       \/ /\ pc = "search_pois_step"
          /\ lookups \in PoiLookups
          /\ preferences \in PreferenceChoices
    /\ NoResponses
    /\ flights = << >> /\ hotels = << >> /\ pois = << >>
    /\ activities = << >>
    /\ trip_duration = 0
    /\ selected_flights = NoFlights
    /\ selected_hotels = << >>
    /\ daily_schedules = << >>
    /\ itinerary = None
    /\ raised = FALSE
    /\ free_time_slots = << >>
    /\ response = None
    /\ is_valid = None
    /\ total_cost = None
    /\ interests = << >>
    /\ candidates = << >>
    /\ normalized = << >>

\* flight_agent.py line 57
FlightAgentSearch ==
    /\ pc = "search_flights_step"
    /\ candidates' = search_flights(request, lookups)
    /\ pc' = "flights_found"
    /\ UNCHANGED <<request, flight_response, hotel_response, poi_response,
                   flights, hotels, pois, trip_duration, selected_flights,
                   selected_hotels, daily_schedules, itinerary, raised,
                   activities, free_time_slots, response, validation,
                   preferences, lookups, interests, normalized>>

\* hotel_agent.py line 60
HotelAgentSearch ==
    /\ pc = "search_hotels_step"
    /\ candidates' = search_hotels(request, lookups)
    /\ pc' = "hotels_found"
    /\ UNCHANGED <<request, flight_response, hotel_response, poi_response,
                   flights, hotels, pois, trip_duration, selected_flights,
                   selected_hotels, daily_schedules, itinerary, raised,
                   activities, free_time_slots, response, validation,
                   preferences, lookups, interests, normalized>>

\* poi_agent.py lines 56-59
POIAgentSearch ==
    /\ pc = "search_pois_step"
    /\ interests' = extract_interests(preferences)
    /\ candidates' = search_pois(request, interests', lookups)
    /\ pc' = "pois_found"
    /\ UNCHANGED <<request, flight_response, hotel_response, poi_response,
                   flights, hotels, pois, trip_duration, selected_flights,
                   selected_hotels, daily_schedules, itinerary, raised,
                   activities, free_time_slots, response, validation,
                   preferences, lookups, normalized>>

NextSearch == FlightAgentSearch \/ HotelAgentSearch \/ POIAgentSearch

SpecSearch == InitSearch /\ [][NextSearch]_vars

(***************************************************************************)
(* The normalization step of each provider, applied to any list of raw     *)
(* records.                                                                *)
(***************************************************************************)
\* Raw flight dicts: two at one price, one without a usable duration, one
\* without a departure time.
RawFlights ==
    {[airline |-> "Delta", price |-> 350, duration_minutes |-> 210,
      departure_time |-> Some(1)],
     [airline |-> "Alaska", price |-> 350, duration_minutes |-> 180,
      departure_time |-> Some(1)],
     [airline |-> "United", price |-> 420, duration_minutes |-> 150,
      departure_time |-> Some(2)],
     [airline |-> "Spirit", price |-> 99, duration_minutes |-> 0,
      departure_time |-> Some(1)],
     [airline |-> "Frontier", price |-> 120, duration_minutes |-> 200,
      departure_time |-> None]}
\* Raw hotel dicts: two at one rating, one rated above 5, one with a null
\* rating.
RawHotels ==
    {[name |-> "Grand", rating |-> Some(45), price_per_night |-> Some(150)],
     [name |-> "Plaza", rating |-> Some(45), price_per_night |-> Some(120)],
     [name |-> "Inn", rating |-> Some(25), price_per_night |-> Some(65)],
     [name |-> "Lodge", rating |-> Some(0), price_per_night |-> Some(200)],
     [name |-> "Palace", rating |-> Some(55), price_per_night |-> Some(90)],
     [name |-> "Hostel", rating |-> None, price_per_night |-> Some(40)]}
\* Raw POI dicts: with and without rating and duration, one with a
\* duration of 0.
RawPois ==
    {[name |-> "Museum", category |-> "cultural", rating |-> Some(45),
      price_range |-> Some("$$"), duration_hours |-> Some(6)],
     [name |-> "Market", category |-> "food", rating |-> Some(45),
      price_range |-> Some("$"), duration_hours |-> Some(3)],
     [name |-> "Park", category |-> "outdoor", rating |-> None,
      price_range |-> None, duration_hours |-> Some(8)],
     [name |-> "Theater", category |-> "cultural", rating |-> Some(45),
      price_range |-> None, duration_hours |-> None],
     [name |-> "Square", category |-> "historical", rating |-> None,
      price_range |-> None, duration_hours |-> None],
     [name |-> "Kiosk", category |-> "shopping", rating |-> Some(50),
      price_range |-> None, duration_hours |-> Some(0)]}

InitNormalize ==
    /\ request \in {r \in TripRequests : r.end_date = 2 /\ r.budget = None}
    /\ \/ /\ pc = "normalize_flights"
          /\ candidates \in SeqsUpTo(RawFlights, MaxCandidates)
       \/ /\ pc = "normalize_hotels"
          /\ candidates \in SeqsUpTo(RawHotels, MaxCandidates)
       \/ /\ pc = "normalize_pois"
          /\ candidates \in SeqsUpTo(RawPois, MaxCandidates)
    /\ NoResponses
    /\ flights = << >> /\ hotels = << >> /\ pois = << >>
    /\ activities = << >>
    /\ trip_duration = 0
    /\ selected_flights = NoFlights
    /\ selected_hotels = << >>
    /\ daily_schedules = << >>
    /\ itinerary = None
    /\ raised = FALSE
    /\ free_time_slots = << >>
    /\ response = None
    /\ is_valid = None
    /\ total_cost = None
    /\ preferences = NoPreferences
    /\ lookups = NoLookups
    /\ interests = << >>
    /\ normalized = << >>

\* flight_agent.py line 67
NormalizeFlights ==
    /\ pc = "normalize_flights"
    /\ normalized' = normalize_flights(candidates)
    /\ pc' = "flights_normalized"
    /\ UNCHANGED <<request, flight_response, hotel_response, poi_response,
                   flights, hotels, pois, trip_duration, selected_flights,
                   selected_hotels, daily_schedules, itinerary, raised,
                   activities, free_time_slots, response, validation,
                   preferences, lookups, interests, candidates>>

\* hotel_agent.py line 73
NormalizeHotels ==
    /\ pc = "normalize_hotels"
    /\ normalized' = normalize_hotels(candidates)
    /\ pc' = "hotels_normalized"
    /\ UNCHANGED <<request, flight_response, hotel_response, poi_response,
                   flights, hotels, pois, trip_duration, selected_flights,
                   selected_hotels, daily_schedules, itinerary, raised,
                   activities, free_time_slots, response, validation,
                   preferences, lookups, interests, candidates>>

\* poi_agent.py line 72
NormalizePois ==
    /\ pc = "normalize_pois"
    /\ normalized' = normalize_pois(candidates)
    /\ pc' = "pois_normalized"
    /\ UNCHANGED <<request, flight_response, hotel_response, poi_response,
                   flights, hotels, pois, trip_duration, selected_flights,
                   selected_hotels, daily_schedules, itinerary, raised,
                   activities, free_time_slots, response, validation,
                   preferences, lookups, interests, candidates>>

NextNormalize == NormalizeFlights \/ NormalizeHotels \/ NormalizePois

SpecNormalize == InitNormalize /\ [][NextNormalize]_vars

(***************************************************************************)
(* process_request with the three provider calls spelled out.  The         *)
(* external services answer one of a few ways: every call raising, every   *)
(* call answering nothing, or one record of each kind coming back.         *)
(***************************************************************************)
PipelineLookups(results) ==
    {l \in Lookups(results) :
        /\ l.llm \in {None, Some(<<"[", "{", "}", "]">>)}
        /\ \/ /\ l.tavily = None /\ l.serpapi = None
           \/ /\ l.tavily = Some(<< >>) /\ l.serpapi = Some(<< >>)
              /\ l.llm /= None
           \/ /\ l.tavily = Some(<<"result">>) /\ l.serpapi = None
              /\ l.llm = None
           \/ /\ l.tavily = None /\ l.serpapi /= None
              /\ Len(Val(l.serpapi)) = 1 /\ l.llm = None}
PipelineFlightLookups == PipelineLookups(SerpapiFlightResults)
PipelineHotelLookups == PipelineLookups(SerpapiHotelResults)
PipelinePoiLookups == PipelineLookups(SerpapiPoiResults)
PipelinePreferences ==
    {p \in PreferenceChoices :
        p.interests \in {<< >>, <<"Shopping">>, <<"food", "nightlife">>}}

InitProviders ==
    /\ request \in Requests
    /\ pc = "start"
    /\ NoResponses
    /\ flights = << >> /\ hotels = << >> /\ pois = << >>
    /\ activities = << >>
    /\ trip_duration = 0
    /\ selected_flights = NoFlights
    /\ selected_hotels = << >>
    /\ daily_schedules = << >>
    /\ itinerary = None
    /\ raised = FALSE
    /\ free_time_slots = << >>
    /\ response = None
    /\ is_valid = None
    /\ total_cost = None
    /\ preferences \in PipelinePreferences
    /\ lookups = NoLookups
    /\ interests = << >>
    /\ candidates = << >>
    /\ normalized = << >>

\* planner_agent.py line 59: await self.flight_agent.process_request(request)
FlightAgentCall ==
    /\ pc = "search_flights"
    /\ \E l \in PipelineFlightLookups :
           /\ lookups' = l
           /\ candidates' = search_flights(request, l)
           /\ flight_response' = Some(FlightAgent_process_request(request, l))
    /\ pc' = "search_hotels"
    /\ UNCHANGED <<request, hotel_response, poi_response,
                   flights, hotels, pois, trip_duration, selected_flights,
                   selected_hotels, daily_schedules, itinerary, raised,
                   activities, free_time_slots, response, validation,
                   preferences, interests, normalized>>

\* planner_agent.py line 64: await self.hotel_agent.process_request(request)
HotelAgentCall ==
    /\ pc = "search_hotels"
    /\ \E l \in PipelineHotelLookups :
           /\ lookups' = l
           /\ candidates' = search_hotels(request, l)
           /\ hotel_response' = Some(HotelAgent_process_request(request, l))
    /\ pc' = "search_pois"
    /\ UNCHANGED <<request, flight_response, poi_response,
                   flights, hotels, pois, trip_duration, selected_flights,
                   selected_hotels, daily_schedules, itinerary, raised,
                   activities, free_time_slots, response, validation,
                   preferences, interests, normalized>>

\* planner_agent.py line 69: await self.poi_agent.process_request(request)
POIAgentCall ==
    /\ pc = "search_pois"
    /\ interests' = extract_interests(preferences)
    /\ \E l \in PipelinePoiLookups :
           /\ lookups' = l
           /\ candidates' = search_pois(request, interests', l)
           /\ poi_response' =
                  Some(POIAgent_process_request(request, preferences, l))
    /\ pc' = "call_create_itinerary"
    /\ UNCHANGED <<request, flight_response, hotel_response,
                   flights, hotels, pois, trip_duration, selected_flights,
                   selected_hotels, daily_schedules, itinerary, raised,
                   activities, free_time_slots, response, validation,
                   preferences, normalized>>

NextProviders ==
    \/ ValidateRequest
    \/ FlightAgentCall
    \/ HotelAgentCall
    \/ POIAgentCall
    \/ CallCreateItinerary
    \/ CreateItinerary
    \/ Respond

SpecProviders == InitProviders /\ [][NextProviders]_vars

(***************************************************************************)
(* A provider's answer to one batch of raw candidates: the part of each    *)
(* process_request that follows the search.                                *)
(***************************************************************************)

\* The interests extracted before a POI batch is categorized.
BatchInterests == {<< >>, <<"food">>}

InitBatch ==
    /\ request \in {r \in TripRequests : r.end_date = 2 /\ r.budget = None}
    /\ \/ /\ pc = "flight_batch"
          /\ candidates \in SeqsUpTo(RawFlights, MaxCandidates) \ {<< >>}
          /\ interests = << >>
       \/ /\ pc = "hotel_batch"
          /\ candidates \in SeqsUpTo(RawHotels, MaxCandidates) \ {<< >>}
          /\ interests = << >>
       \/ /\ pc = "poi_batch"
          /\ candidates \in SeqsUpTo(RawPois, MaxCandidates) \ {<< >>}
          /\ interests \in BatchInterests
    /\ NoResponses
    /\ flights = << >> /\ hotels = << >> /\ pois = << >>
    /\ activities = << >>
    /\ trip_duration = 0
    /\ selected_flights = NoFlights
    /\ selected_hotels = << >>
    /\ daily_schedules = << >>
    /\ itinerary = None
    /\ raised = FALSE
    /\ free_time_slots = << >>
    /\ response = None
    /\ is_valid = None
    /\ total_cost = None
    /\ preferences = NoPreferences
    /\ lookups = NoLookups
    /\ normalized = << >>

\* flight_agent.py lines 59-75
FlightAgentAnswers ==
    /\ pc = "flight_batch"
    /\ flight_response' = Some(FlightAgentAnswer(request, candidates))
    /\ pc' = "flight_answer"
    /\ UNCHANGED <<request, hotel_response, poi_response,
                   flights, hotels, pois, trip_duration, selected_flights,
                   selected_hotels, daily_schedules, itinerary, raised,
                   activities, free_time_slots, response, validation,
                   provider>>

\* hotel_agent.py lines 62-88
HotelAgentAnswers ==
    /\ pc = "hotel_batch"
    /\ hotel_response' = Some(HotelAgentAnswer(request, candidates))
    /\ pc' = "hotel_answer"
    /\ UNCHANGED <<request, flight_response, poi_response,
                   flights, hotels, pois, trip_duration, selected_flights,
                   selected_hotels, daily_schedules, itinerary, raised,
                   activities, free_time_slots, response, validation,
                   provider>>

\* poi_agent.py lines 61-80
POIAgentAnswers ==
    /\ pc = "poi_batch"
    /\ poi_response' = Some(POIAgentAnswer(interests, candidates))
    /\ pc' = "poi_answer"
    /\ UNCHANGED <<request, flight_response, hotel_response,
                   flights, hotels, pois, trip_duration, selected_flights,
                   selected_hotels, daily_schedules, itinerary, raised,
                   activities, free_time_slots, response, validation,
                   provider>>

NextBatch == FlightAgentAnswers \/ HotelAgentAnswers \/ POIAgentAnswers

SpecBatch == InitBatch /\ [][NextBatch]_vars


(***************************************************************************)
(* create_itinerary on a five-night trip with a budget of 2000.            *)
(***************************************************************************)

ScenarioRequest ==
    [destination |-> "Los Angeles", start_date |-> 1, end_date |-> 6,
     budget |-> Some(2000), travelers |-> 1]

ScenarioFlights ==
    {[airline |-> "Delta", price |-> 350, duration_minutes |-> 210,
      departure_date |-> 1],
     [airline |-> "United", price |-> 420, duration_minutes |-> 225,
      departure_date |-> 6]}

ScenarioHotels ==
    {[name |-> "Comfort Inn", rating |-> 45, price_per_night |-> 120],
     [name |-> "Budget Motel", rating |-> 25, price_per_night |-> 65]}

\* The lists that hold every element of S once, in any order.
Orderings(S) ==
    {s \in SeqsUpTo(S, Cardinality(S)) :
        Len(s) = Cardinality(S) /\ Range(s) = S}

InitScenario ==
    /\ request = ScenarioRequest
    /\ pc = "create_itinerary"
    /\ NoResponses
    /\ flights \in Orderings(ScenarioFlights)
    /\ hotels \in Orderings(ScenarioHotels)
    /\ pois \in SeqsUpTo(ComposePoiKinds, MaxCandidates)
    /\ activities = << >>
    /\ Unset

SpecScenario == InitScenario /\ [][CreateItinerary]_vars

(***************************************************************************)
(* The pipeline with every external call as a call that is issued and an   *)
(* answer that arrives from outside: tavily_client.search,                  *)
(* GoogleSearch(...).get_dict() and client.chat.completions.create are     *)
(* called without a timeout and block until they return or raise.          *)
(***************************************************************************)

\* The agent that waits at each point of the pipeline.
AgentOf ==
    [flight_tavily |-> "FlightAgent", flight_serpapi |-> "FlightAgent",
     flight_llm |-> "FlightAgent", hotel_tavily |-> "HotelAgent",
     hotel_serpapi |-> "HotelAgent", hotel_llm |-> "HotelAgent",
     poi_tavily |-> "POIAgent", poi_serpapi |-> "POIAgent",
     poi_llm |-> "POIAgent"]

\* search_*: the SerpAPI search follows the Tavily search
SerpapiStage ==
    [FlightAgent |-> "flight_serpapi", HotelAgent |-> "hotel_serpapi",
     POIAgent |-> "poi_serpapi"]

\* generate_mock_*: the LLM call
LlmStage ==
    [FlightAgent |-> "flight_llm", HotelAgent |-> "hotel_llm",
     POIAgent |-> "poi_llm"]

\* the rest of process_request, after the search
ReturnStage ==
    [FlightAgent |-> "flight_return", HotelAgent |-> "hotel_return",
     POIAgent |-> "poi_return"]

SerpapiResultsOf ==
    [FlightAgent |-> SerpapiFlightResults, HotelAgent |-> SerpapiHotelResults,
     POIAgent |-> SerpapiPoiResults]

\* `if not flights:`, `if not hotels:`, `if not pois:` after the two searches
NothingFound(lookups_) ==
    LookupResults(lookups_.tavily) = << >>
    /\ LookupResults(lookups_.serpapi) = << >>

InitLive ==
    /\ request \in {r \in Requests : r.end_date \in {1, 3}}
    /\ pc = "start"
    /\ NoResponses
    /\ flights = << >> /\ hotels = << >> /\ pois = << >>
    /\ activities = << >>
    /\ Unset
    /\ preferences \in {p \in PipelinePreferences : Len(p.interests) < 2}

\* flight_agent.py lines 36-57 and 98-99: up to the Tavily call
FlightAgentStarts ==
    /\ pc = "search_flights"
    /\ lookups' = NoLookups
    /\ pc' = "flight_tavily"
    /\ UNCHANGED <<request, flight_response, hotel_response, poi_response,
                   flights, hotels, pois, trip_duration, selected_flights,
                   selected_hotels, daily_schedules, itinerary, raised,
                   activities, free_time_slots, response, validation,
                   preferences, interests, candidates, normalized>>

\* hotel_agent.py lines 36-60 and 106-107: up to the Tavily call
HotelAgentStarts ==
    /\ pc = "search_hotels"
    /\ lookups' = NoLookups
    /\ pc' = "hotel_tavily"
    /\ UNCHANGED <<request, flight_response, hotel_response, poi_response,
                   flights, hotels, pois, trip_duration, selected_flights,
                   selected_hotels, daily_schedules, itinerary, raised,
                   activities, free_time_slots, response, validation,
                   preferences, interests, candidates, normalized>>

\* poi_agent.py lines 35-58 and 146-149: up to the Tavily call
POIAgentStarts ==
    /\ pc = "search_pois"
    /\ lookups' = NoLookups
    /\ interests' = extract_interests(preferences)
    /\ pc' = "poi_tavily"
    /\ UNCHANGED <<request, flight_response, hotel_response, poi_response,
                   flights, hotels, pois, trip_duration, selected_flights,
                   selected_hotels, daily_schedules, itinerary, raised,
                   activities, free_time_slots, response, validation,
                   preferences, candidates, normalized>>

\* tavily_client.search returns or raises
TavilyAnswers ==
    /\ pc \in {"flight_tavily", "hotel_tavily", "poi_tavily"}
    /\ \E outcome \in TavilyOutcomes :
           lookups' = [lookups EXCEPT !.tavily = outcome]
    /\ pc' = SerpapiStage[AgentOf[pc]]
    /\ UNCHANGED <<request, flight_response, hotel_response, poi_response,
                   flights, hotels, pois, trip_duration, selected_flights,
                   selected_hotels, daily_schedules, itinerary, raised,
                   activities, free_time_slots, response, validation,
                   preferences, interests, candidates, normalized>>

\* GoogleSearch(...).get_dict() returns or raises; `if not flights:` then
\* decides whether generate_mock_* and its LLM call follow
SerpapiAnswers ==
    /\ pc \in {"flight_serpapi", "hotel_serpapi", "poi_serpapi"}
    /\ \E results \in SeqsUpTo(SerpapiResultsOf[AgentOf[pc]], 1) :
       \E outcome \in {None, Some(results)} :
           lookups' = [lookups EXCEPT !.serpapi = outcome]
    /\ pc' = IF NothingFound(lookups') THEN LlmStage[AgentOf[pc]]
             ELSE ReturnStage[AgentOf[pc]]
    /\ UNCHANGED <<request, flight_response, hotel_response, poi_response,
                   flights, hotels, pois, trip_duration, selected_flights,
                   selected_hotels, daily_schedules, itinerary, raised,
                   activities, free_time_slots, response, validation,
                   preferences, interests, candidates, normalized>>

\* client.chat.completions.create returns or raises
LlmAnswers ==
    /\ pc \in {"flight_llm", "hotel_llm", "poi_llm"}
    /\ \E outcome \in {None, Some(<<"[", "{", "}", "]">>)} :
           lookups' = [lookups EXCEPT !.llm = outcome]
    /\ pc' = ReturnStage[AgentOf[pc]]
    /\ UNCHANGED <<request, flight_response, hotel_response, poi_response,
                   flights, hotels, pois, trip_duration, selected_flights,
                   selected_hotels, daily_schedules, itinerary, raised,
                   activities, free_time_slots, response, validation,
                   preferences, interests, candidates, normalized>>

\* flight_agent.py lines 59-82
FlightAgentReturns ==
    /\ pc = "flight_return"
    /\ candidates' = search_flights(request, lookups)
    /\ flight_response' = Some(FlightAgent_process_request(request, lookups))
    /\ pc' = "search_hotels"
    /\ UNCHANGED <<request, hotel_response, poi_response,
                   flights, hotels, pois, trip_duration, selected_flights,
                   selected_hotels, daily_schedules, itinerary, raised,
                   activities, free_time_slots, response, validation,
                   preferences, lookups, interests, normalized>>

\* hotel_agent.py lines 62-88
HotelAgentReturns ==
    /\ pc = "hotel_return"
    /\ candidates' = search_hotels(request, lookups)
    /\ hotel_response' = Some(HotelAgent_process_request(request, lookups))
    /\ pc' = "search_pois"
    /\ UNCHANGED <<request, flight_response, poi_response,
                   flights, hotels, pois, trip_duration, selected_flights,
                   selected_hotels, daily_schedules, itinerary, raised,
                   activities, free_time_slots, response, validation,
                   preferences, lookups, interests, normalized>>

\* poi_agent.py lines 61-87
POIAgentReturns ==
    /\ pc = "poi_return"
    /\ candidates' = search_pois(request, interests, lookups)
    /\ poi_response' =
           Some(POIAgent_process_request(request, preferences, lookups))
    /\ pc' = "call_create_itinerary"
    /\ UNCHANGED <<request, flight_response, hotel_response,
                   flights, hotels, pois, trip_duration, selected_flights,
                   selected_hotels, daily_schedules, itinerary, raised,
                   activities, free_time_slots, response, validation,
                   preferences, lookups, interests, normalized>>

\* The steps the interpreter takes by itself.
ProgramStep ==
    \/ ValidateRequest
    \/ FlightAgentStarts
    \/ FlightAgentReturns
    \/ HotelAgentStarts
    \/ HotelAgentReturns
    \/ POIAgentStarts
    \/ POIAgentReturns
    \/ CallCreateItinerary
    \/ CreateItinerary
    \/ Respond

\* The steps that wait for a service outside the program.
ExternalAnswer == TavilyAnswers \/ SerpapiAnswers \/ LlmAnswers

NextLive == ProgramStep \/ ExternalAnswer

\* The program's own steps are always taken; whether an external service
\* answers is not for the program to decide.
SpecLive == InitLive /\ [][NextLive]_vars /\ WF_vars(ProgramStep)

(***************************************************************************)
(* main.py: what main() does with the response of process_request.         *)
(***************************************************************************)

\* The responses process_request hands to main(): an itinerary the
\* constructor accepted, or a failure.
MainResponses ==
    {create_response("PlannerAgent", TRUE, Some(i), None) :
        i \in {c \in CheckedItineraries : c.end_date = 2}}
    \cup {Failure("Invalid search request"), Failure("Travel planning error")}

InitMain ==
    /\ request \in {r \in TripRequests : r.end_date = 2 /\ r.budget = None}
    /\ pc = "done"
    /\ NoResponses
    /\ flights = << >> /\ hotels = << >> /\ pois = << >>
    /\ activities = << >>
    /\ \E r \in MainResponses : response = Some(r)
    /\ trip_duration = 0
    /\ selected_flights = NoFlights
    /\ selected_hotels = << >>
    /\ daily_schedules = << >>
    /\ itinerary = None
    /\ raised = FALSE
    /\ free_time_slots = << >>
    /\ is_valid = None
    /\ total_cost = None
    /\ preferences = NoPreferences
    /\ lookups = NoLookups
    /\ interests = << >>
    /\ candidates = << >>
    /\ normalized = << >>

\* main.py lines 221-225 and 249-252: `if response.success:`
ReadResponse ==
    /\ pc = "done"
    /\ IF Val(response).success
       THEN itinerary' = Val(response).data /\ pc' = "get_itinerary_summary"
       ELSE itinerary' = itinerary /\ pc' = "failure_logged"
    /\ UNCHANGED <<request, flight_response, hotel_response, poi_response,
                   flights, hotels, pois, trip_duration, selected_flights,
                   selected_hotels, daily_schedules, raised,
                   activities, free_time_slots, response, validation,
                   provider>>

\* main.py line 228: summary = await planner.get_itinerary_summary(itinerary)
GetItinerarySummary ==
    /\ pc = "get_itinerary_summary"
    /\ total_cost' = Some(calculate_total_cost(Val(itinerary)))
    /\ pc' = "display_itinerary_summary"
    /\ UNCHANGED <<request, flight_response, hotel_response, poi_response,
                   flights, hotels, pois, trip_duration, selected_flights,
                   selected_hotels, daily_schedules, itinerary, raised,
                   activities, free_time_slots, response, is_valid,
                   provider>>

\* main.py line 229: display_itinerary_summary(summary)
DisplayItinerarySummary ==
    /\ pc = "display_itinerary_summary"
    /\ pc' = "display_detailed_itinerary"
    /\ UNCHANGED <<request, flight_response, hotel_response, poi_response,
                   flights, hotels, pois, trip_duration, selected_flights,
                   selected_hotels, daily_schedules, itinerary, raised,
                   activities, free_time_slots, response, validation,
                   provider>>

\* main.py lines 232-233: display_detailed_itinerary(itinerary.model_dump())
DisplayDetailedItinerary ==
    /\ pc = "display_detailed_itinerary"
    /\ pc' = "save_itinerary"
    /\ UNCHANGED <<request, flight_response, hotel_response, poi_response,
                   flights, hotels, pois, trip_duration, selected_flights,
                   selected_hotels, daily_schedules, itinerary, raised,
                   activities, free_time_slots, response, validation,
                   provider>>

\* main.py lines 236-240: json.dump(itinerary_dict, f, ...)
SaveItinerary ==
    /\ pc = "save_itinerary"
    /\ pc' = "main_validate_itinerary"
    /\ UNCHANGED <<request, flight_response, hotel_response, poi_response,
                   flights, hotels, pois, trip_duration, selected_flights,
                   selected_hotels, daily_schedules, itinerary, raised,
                   activities, free_time_slots, response, validation,
                   provider>>

\* main.py lines 243-247: is_valid = await planner.validate_itinerary(..)
MainValidateItinerary ==
    /\ pc = "main_validate_itinerary"
    /\ is_valid' = Some(validate_itinerary(Val(itinerary)))
    /\ pc' = "main_done"
    /\ UNCHANGED <<request, flight_response, hotel_response, poi_response,
                   flights, hotels, pois, trip_duration, selected_flights,
                   selected_hotels, daily_schedules, itinerary, raised,
                   activities, free_time_slots, response, total_cost,
                   provider>>

NextMain ==
    \/ ReadResponse
    \/ GetItinerarySummary
    \/ DisplayItinerarySummary
    \/ DisplayDetailedItinerary
    \/ SaveItinerary
    \/ MainValidateItinerary

SpecMain == InitMain /\ [][NextMain]_vars

(***************************************************************************)
(* create_daily_schedules on trips of one to 1 + MaxDays days.             *)
(***************************************************************************)

\* POI candidates: two of one category, and one each of the categories the
\* arrival and departure days look for and of one they do not.
SchedulePoiKinds ==
    {[name |-> "Market", category |-> "food", price_range |-> Some("$"),
      duration_hours |-> Some(3)],
     [name |-> "Bistro", category |-> "food", price_range |-> Some("$$"),
      duration_hours |-> Some(4)],
     [name |-> "Club", category |-> "entertainment", price_range |-> None,
      duration_hours |-> Some(6)],
     [name |-> "Museum", category |-> "cultural", price_range |-> Some("$$"),
      duration_hours |-> None],
     [name |-> "Mall", category |-> "shopping", price_range |-> None,
      duration_hours |-> Some(4)],
     [name |-> "Park", category |-> "outdoor", price_range |-> None,
      duration_hours |-> Some(10)]}

InitSchedules ==
    /\ request \in [destination : {"Los Angeles"}, start_date : {1},
                    end_date : 2..(2 + MaxDays), budget : {None},
                    travelers : {1}]
    /\ pc = "create_daily_schedules"
    /\ NoResponses
    /\ flights = << >> /\ hotels = << >>
    /\ pois \in SeqsUpTo(SchedulePoiKinds, MaxCandidates)
    /\ activities = << >>
    /\ trip_duration = request.end_date - request.start_date
    /\ selected_flights = NoFlights
    /\ selected_hotels = << >>
    /\ daily_schedules = << >>
    /\ itinerary = None
    /\ raised = FALSE
    /\ free_time_slots = << >>
    /\ response = None
    /\ is_valid = None
    /\ total_cost = None
    /\ preferences = NoPreferences
    /\ lookups = NoLookups
    /\ interests = << >>
    /\ candidates = << >>
    /\ normalized = << >>

\* planner_agent.py line 125 and lines 212-248
CreateDailySchedules ==
    /\ pc = "create_daily_schedules"
    /\ daily_schedules' = create_daily_schedules(request, pois, trip_duration)
    /\ pc' = "schedules_created"
    /\ UNCHANGED <<request, flight_response, hotel_response, poi_response,
                   flights, hotels, pois, trip_duration, selected_flights,
                   selected_hotels, itinerary, raised,
                   activities, free_time_slots, response, validation,
                   provider>>

SpecSchedules == InitSchedules /\ [][CreateDailySchedules]_vars

(***************************************************************************)
(* The selection functions and the read-only functions of PlannerAgent,    *)
(* each on its own arguments.                                              *)
(***************************************************************************)

InitFrame == InitFlights \/ InitHotels \/ InitSchedules \/ InitValidate

NextFrame ==
    \/ SelectBestFlights
    \/ SelectBestHotels
    \/ CreateDailySchedules
    \/ CalculateTotalCost
    \/ ValidateItinerary

SpecFrame == InitFrame /\ [][NextFrame]_vars

(***************************************************************************)
(* Properties                                                              *)
(***************************************************************************)
Min(a, b) == IF a < b THEN a ELSE b
Days(r) == r.end_date - r.start_date

\* C1: create_itinerary never signals failure: for every request with
\* end_date > start_date and every combination of candidate lists it returns
\* an Itinerary, with unset flights for an empty flight list, no hotels for an
\* empty hotel list and empty daily activity lists for an empty POI list.
C1_ComposerNeverFails ==
    (pc = "created" /\ request.end_date > request.start_date) =>
        /\ ~raised
        /\ ~IsNone(itinerary)
        /\ (flights = << >> =>
               /\ IsNone(Val(itinerary).outbound_flight)
               /\ IsNone(Val(itinerary).return_flight))
        /\ (hotels = << >> => Val(itinerary).hotels = << >>)
        /\ (pois = << >> =>
               \A d \in 1..Len(Val(itinerary).daily_schedules) :
                   Val(itinerary).daily_schedules[d].activities = << >>)

\* C2: for every request with a non-empty destination, end_date > start_date
\* and travelers >= 1, process_request returns success = true with an
\* Itinerary payload, whatever the three providers reported.
C2_ValidRequestSucceeds ==
    (/\ pc = "done"
     /\ request.destination /= ""
     /\ request.end_date > request.start_date
     /\ request.travelers >= 1) =>
        /\ ~IsNone(response)
        /\ Val(response).success
        /\ ~IsNone(Val(response).data)

\* C3: every response returned by process_request is either success = true
\* with an Itinerary payload, or success = false with a null payload and a
\* non-empty error_message; an invalid request and an error raised by
\* create_itinerary both run on to a returned response.
C3_ResponseShape ==
    /\ pc = "done" =>
        /\ ~IsNone(response)
        /\ LET r == Val(response)
           IN \/ /\ r.success
                 /\ ~IsNone(r.data)
                 /\ r.data = itinerary
                 /\ IsNone(r.error_message)
              \/ /\ ~r.success
                 /\ IsNone(r.data)
                 /\ ~IsNone(r.error_message)
                 /\ Val(r.error_message) /= ""
    /\ pc /= "done" => IsNone(response)
    /\ pc = "start" => ENABLED ValidateRequest
    /\ pc = "created" => ENABLED Respond

\* C3 witness: a failed response was returned after all three providers
\* answered.
C3_FailedResponseReturned ==
    /\ pc = "done"
    /\ ~IsNone(poi_response)
    /\ ~Val(response).success
    /\ Val(response).error_message = Some("Travel planning error")

\* C4: for every request with end_date > start_date and travelers >= 1,
\* composition produces an Itinerary with exactly (end_date - start_date).days
\* daily schedules whose total_days field equals the number of schedules.
C4_SchedulesMatchTotalDays ==
    (/\ pc = "created"
     /\ request.end_date > request.start_date
     /\ request.travelers >= 1) =>
        /\ ~IsNone(itinerary)
        /\ Len(Val(itinerary).daily_schedules) = Days(request)
        /\ Val(itinerary).total_days = Len(Val(itinerary).daily_schedules)

\* C5: for every non-empty flight candidate list the outbound flight is a
\* candidate of minimum price and, among those, of minimum duration_minutes.
C5_OutboundIsCheapestThenShortest ==
    (pc = "flights_selected" /\ flights /= << >>) =>
        /\ ~IsNone(selected_flights.outbound)
        /\ LET o == Val(selected_flights.outbound)
           IN /\ o \in Range(flights)
              /\ \A f \in Range(flights) :
                     /\ o.price <= f.price
                     /\ (f.price = o.price =>
                            o.duration_minutes <= f.duration_minutes)

\* C5 witness: the outbound flight is not the first candidate, and another
\* candidate of the same price takes longer.
C5_TieBrokenByDuration ==
    /\ pc = "flights_selected"
    /\ Len(flights) >= 2
    /\ Val(selected_flights.outbound) /= flights[1]
    /\ \E f \in Range(flights) :
           /\ f.price = Val(selected_flights.outbound).price
           /\ f.duration_minutes > Val(selected_flights.outbound).duration_minutes

\* (price, duration) of a is not after that of b
NotAfter(a, b) ==
    \/ a.price < b.price
    \/ (a.price = b.price /\ a.duration_minutes <= b.duration_minutes)

C7_SelectedWithinCeiling ==
    (/\ pc = "hotels_selected"
     /\ hotels /= << >>
     /\ ~IsNone(request.budget)) =>
        \A i \in 1..Len(selected_hotels) :
            selected_hotels[i].price_per_night * Days(request) * 10
                <= Val(request.budget) * 4

\* The budget filter as select_best_hotels applies it: every hotel passes
\* when the budget is unset or zero.
PassesFilter(h) ==
    \/ IsNone(request.budget)
    \/ Val(request.budget) = 0
    \/ h.price_per_night * Days(request) * 10 <= Val(request.budget) * 4

\* a ranks strictly before b: higher rating, or equal rating and lower price
RanksBefore(a, b) ==
    \/ a.rating > b.rating
    \/ (a.rating = b.rating /\ a.price_per_night < b.price_per_night)

C9_SelectionCaps ==
    pc = "created" =>
        /\ Len(selected_hotels) <= 2
        /\ \A d \in 1..Len(daily_schedules) :
               Len(daily_schedules[d].activities) <= 3

\* C9 witness: more than 2 hotel candidates of which 2 were selected, and 3
\* or more POI candidates with a day that holds 2 activities.
C9_MoreCandidatesThanSelected ==
    /\ pc = "created"
    /\ Len(hotels) > 2
    /\ Len(selected_hotels) = 2
    /\ Len(pois) >= 3
    /\ \E d \in 1..Len(daily_schedules) :
           Len(daily_schedules[d].activities) = 2

\* Total duration of a day's activities, each counted at its duration_hours
\* or at 2 hours when it has none.
ClaimedTotal(acts) ==
    LET sum[i \in 0..Len(acts)] ==
            IF i = 0 THEN 0
            ELSE sum[i - 1] + (IF IsNone(acts[i].duration_hours)
                               THEN 2 * UnitsPerHour
                               ELSE Val(acts[i].duration_hours))
    IN sum[Len(acts)]

\* C10: the afternoon slot is generated exactly when 8 - total >= 2 hours and
\* the evening slot exactly when 8 - total >= 4 hours; so none for a total of
\* 8 hours or more, both for a total under 2 hours, and never the evening
\* slot without the afternoon slot.
C10_FreeTimeSlots ==
    pc = "slots_created" =>
        LET total == ClaimedTotal(activities)
            afternoon == AfternoonSlot \in Range(free_time_slots)
            evening == EveningSlot \in Range(free_time_slots)
        IN /\ afternoon <=> (8 * UnitsPerHour - total >= 2 * UnitsPerHour)
           /\ evening <=> (8 * UnitsPerHour - total >= 4 * UnitsPerHour)
           /\ total >= 8 * UnitsPerHour => free_time_slots = << >>
           /\ total < 2 * UnitsPerHour => afternoon /\ evening
           /\ evening => afternoon
           /\ Len(free_time_slots) <= 2
           /\ Range(free_time_slots) \subseteq {AfternoonSlot, EveningSlot}

\* C10 witness: an activity without a duration is counted at 2 hours and the
\* day gets the afternoon slot only.
C10_AfternoonOnlyWithDefaultDuration ==
    /\ pc = "slots_created"
    /\ \E i \in 1..Len(activities) : IsNone(activities[i].duration_hours)
    /\ free_time_slots = <<AfternoonSlot>>


(***************************************************************************)
(* Properties of validate_itinerary and calculate_total_cost               *)
(***************************************************************************)
Checked == Val(itinerary)

\* C11: validate_itinerary returns false for every itinerary whose hotel
\* list is empty.
C11_NoHotelsRejected ==
    (pc = "validated" /\ Len(Checked.hotels) = 0) => is_valid = Some(FALSE)

\* An itinerary that breaks no other rule and has no hotel is rejected.
C11_OnlyHotelsMissing ==
    /\ pc = "validated"
    /\ Checked.hotels = << >>
    /\ IsNone(Checked.outbound_flight)
    /\ Len(Checked.daily_schedules) = Checked.total_days
    /\ IsNone(Checked.total_budget)
    /\ is_valid = Some(FALSE)

\* C12: validate_itinerary returns false for every itinerary whose
\* total_budget is set, to any non-negative amount including 0, and whose
\* calculate_total_cost exceeds it, whatever its other fields.
C12_OverBudgetRejected ==
    (/\ pc = "validated"
     /\ ~IsNone(Checked.total_budget)
     /\ Val(Checked.total_budget) >= 0
     /\ Val(total_cost) > Val(Checked.total_budget))
        => is_valid = Some(FALSE)

\* C13: validate_itinerary returns false when the outbound flight departs on
\* another date than start_date, and when the number of daily schedules
\* differs from total_days; an itinerary without an outbound flight that
\* keeps the other rules is accepted.
C13_DateAndDayCountRules ==
    pc = "validated" =>
        /\ (/\ ~IsNone(Checked.outbound_flight)
            /\ Val(Checked.outbound_flight).departure_date
                   /= Checked.start_date)
               => is_valid = Some(FALSE)
        /\ Len(Checked.daily_schedules) /= Checked.total_days
               => is_valid = Some(FALSE)
        /\ (/\ IsNone(Checked.outbound_flight)
            /\ Checked.hotels /= << >>
            /\ Len(Checked.daily_schedules) = Checked.total_days
            /\ IsNone(Checked.total_budget))
               => is_valid = Some(TRUE)

\* An itinerary without an outbound flight but with a return flight passes.
C13_NoOutboundAccepted ==
    /\ pc = "validated"
    /\ IsNone(Checked.outbound_flight)
    /\ ~IsNone(Checked.return_flight)
    /\ is_valid = Some(TRUE)

\* C14: validate_itinerary returns true for every itinerary with at least one
\* hotel, an outbound flight unset or departing on start_date, as many daily
\* schedules as total_days, and a budget unset or not below the total cost.
C14_ValidAccepted ==
    (/\ pc = "validated"
     /\ Len(Checked.hotels) >= 1
     /\ \/ IsNone(Checked.outbound_flight)
        \/ Val(Checked.outbound_flight).departure_date = Checked.start_date
     /\ Len(Checked.daily_schedules) = Checked.total_days
     /\ \/ IsNone(Checked.total_budget)
        \/ Val(total_cost) <= Val(Checked.total_budget))
        => is_valid = Some(TRUE)

\* An itinerary that spends its budget exactly is accepted.
C14_BudgetSpentExactly ==
    /\ pc = "validated"
    /\ ~IsNone(Checked.outbound_flight)
    /\ Checked.total_budget = total_cost
    /\ Val(total_cost) > 0
    /\ is_valid = Some(TRUE)

RECURSIVE SumTo(_, _)
SumTo(f, n) == IF n = 0 THEN 0 ELSE f[n] + SumTo(f, n - 1)
ClaimedPrice(a) ==
    CASE a.price_range = Some("$") -> 20
      [] a.price_range = Some("$$") -> 50
      [] a.price_range = Some("$$$") -> 100
      [] OTHER -> 0
ClaimedCost(it) ==
    (IF IsNone(it.outbound_flight) THEN 0 ELSE Val(it.outbound_flight).price)
    + (IF IsNone(it.return_flight) THEN 0 ELSE Val(it.return_flight).price)
    + SumTo([i \in 1..Len(it.hotels) |->
                it.hotels[i].price_per_night * it.total_days],
            Len(it.hotels))
    + SumTo([d \in 1..Len(it.daily_schedules) |->
                SumTo([k \in 1..Len(it.daily_schedules[d].activities) |->
                          ClaimedPrice(it.daily_schedules[d].activities[k])],
                      Len(it.daily_schedules[d].activities))],
            Len(it.daily_schedules))

\* C15: calculate_total_cost is the outbound price (if set) plus the return
\* price (if set) plus price_per_night * total_days over the hotels plus 20,
\* 50 or 100 per activity priced "$", "$$" or "$$$" and 0 for any other.
C15_TotalCost ==
    pc /= "calculate_total_cost" => total_cost = Some(ClaimedCost(Checked))

\* The same flight on both legs is counted twice, next to priced and
\* unpriced activities.
C15_SameFlightTwice ==
    /\ pc = "validated"
    /\ ~IsNone(Checked.outbound_flight)
    /\ Checked.outbound_flight = Checked.return_flight
    /\ Len(Checked.hotels) = 2
    /\ \E d \in 1..Len(Checked.daily_schedules) :
           \E k \in 1..Len(Checked.daily_schedules[d].activities) :
               Checked.daily_schedules[d].activities[k].price_range
                   = Some("$$$")
    /\ \E d \in 1..Len(Checked.daily_schedules) :
           \E k \in 1..Len(Checked.daily_schedules[d].activities) :
               Checked.daily_schedules[d].activities[k].price_range
                   = Some("Free")
    /\ Val(total_cost) >= 2 * Val(Checked.outbound_flight).price
                          + 2 * 65 * Checked.total_days + 100

(***************************************************************************)
(* Properties of the planner's handling of validation and of bad requests  *)
(***************************************************************************)
\* C16: validation is advisory: validate_itinerary yields a boolean and
\* never an error, and the itinerary process_request composed is returned
\* with success = true whichever boolean that is.
C16_ItineraryReturnedEitherWay ==
    (pc = "done" /\ ~IsNone(poi_response)) =>
        /\ ~IsNone(itinerary)
        /\ validate_itinerary(Val(itinerary)) \in BOOLEAN
        /\ Val(response).success
        /\ Val(response).data = itinerary

Malformed(r) ==
    r.destination = "" \/ r.end_date <= r.start_date \/ r.travelers < 1

\* C17: a request with an empty destination, end_date <= start_date or
\* travelers < 1 gets a failed response, and no search step and no
\* composition step is started for it.
C17_MalformedRequestStopsEarly ==
    Malformed(request) =>
        /\ pc \in {"start", "done"}
        /\ flight_response = None
        /\ hotel_response = None
        /\ poi_response = None
        /\ flights = << >> /\ hotels = << >> /\ pois = << >>
        /\ trip_duration = 0
        /\ daily_schedules = << >>
        /\ itinerary = None
        /\ ~raised
        /\ pc = "done" =>
               /\ ~IsNone(response)
               /\ ~Val(response).success
               /\ Val(response).data = None
               /\ Val(response).error_message /= None

\* A request that is wrong only in its traveler count is answered with a
\* failure.
C17_NoTravelersRefused ==
    /\ pc = "done"
    /\ request.destination /= ""
    /\ request.end_date > request.start_date
    /\ request.travelers < 1
    /\ ~Val(response).success

(***************************************************************************)
(* Properties of the provider agents                                       *)
(***************************************************************************)
\* C19: when every external lookup fails or returns nothing, the search
\* step of each provider (search_flights, search_hotels, search_pois) still
\* yields a non-empty list of synthesized candidates, for every valid
\* request and every value of the interests preference.
C19_SynthesizedCandidates ==
    (/\ pc \in {"flights_found", "hotels_found", "pois_found"}
     /\ lookups.tavily \in {None, Some(<< >>)}
     /\ lookups.serpapi \in {None, Some(<< >>)})
        => Len(candidates) >= 1

RatingOf(p) == IF p.rating = None THEN 0 ELSE p.rating[1]
DurationOf(p) == IF p.duration_hours = None THEN 0 ELSE p.duration_hours[1]

\* C20: every provider list is sorted: flights by price ascending then
\* duration ascending, hotels by rating descending then price ascending,
\* POIs by rating descending then duration descending, a missing rating or
\* duration ranking as 0.
C20_ProviderListsSorted ==
    \A i, j \in 1..Len(normalized) :
        i < j =>
            LET a == normalized[i]
                b == normalized[j]
            IN /\ pc = "flights_normalized" =>
                      \/ a.price < b.price
                      \/ /\ a.price = b.price
                         /\ a.duration_minutes <= b.duration_minutes
               /\ pc = "hotels_normalized" =>
                      \/ a.rating > b.rating
                      \/ /\ a.rating = b.rating
                         /\ a.price_per_night <= b.price_per_night
               /\ pc = "pois_normalized" =>
                      \/ RatingOf(a) > RatingOf(b)
                      \/ /\ RatingOf(a) = RatingOf(b)
                         /\ DurationOf(a) >= DurationOf(b)

\* Three POIs handed over in the opposite order come back with the equal
\* ratings ordered by duration and the unrated one last.
C20_PoisReordered ==
    /\ pc = "pois_normalized"
    /\ Len(candidates) = 3
    /\ Len(normalized) = 3
    /\ normalized[1] = candidates[3]
    /\ normalized[3] = candidates[1]
    /\ normalized[1].rating = normalized[2].rating
    /\ normalized[2].duration_hours = None
    /\ normalized[3].rating = None

Called(after) == pc \in after \/ (pc = "done" /\ ~Malformed(request))
Returned(resp, name) ==
    /\ resp /= None
    /\ resp[1].agent_name = name
    /\ resp[1].success \in BOOLEAN
    /\ resp[1].success => resp[1].error_message = None
    /\ ~resp[1].success =>
           (resp[1].data = None /\ resp[1].error_message /= None)
Passed(resp, argument) ==
    /\ resp[1].success => argument = resp[1].data
    /\ ~resp[1].success => argument = << >>

\* C18: no provider error reaches the composer: whatever the external
\* lookups, the mock generation and the normalization do, each provider call
\* ends in a returned AgentResponse, and create_itinerary is handed the
\* empty list for a provider that answered success = false and the payload
\* of every provider that answered success = true.
C18_ProviderFailuresContained ==
    /\ Called({"search_hotels", "search_pois", "call_create_itinerary",
               "create_itinerary", "created"})
           => Returned(flight_response, "FlightAgent")
    /\ Called({"search_pois", "call_create_itinerary", "create_itinerary",
               "created"})
           => Returned(hotel_response, "HotelAgent")
    /\ Called({"call_create_itinerary", "create_itinerary", "created"})
           => Returned(poi_response, "POIAgent")
    /\ Called({"create_itinerary", "created"}) =>
           /\ Passed(flight_response, flights)
           /\ Passed(hotel_response, hotels)
           /\ Passed(poi_response, pois)

\* Every lookup of the POI provider raised and it answered success = false;
\* the composer is called with no POIs and with the flights and hotels found.
C18_FailedPoiProviderPassedAsEmpty ==
    /\ pc = "create_itinerary"
    /\ lookups = [tavily |-> None, serpapi |-> None, llm |-> None]
    /\ ~Val(poi_response).success
    /\ pois = << >>
    /\ Len(flights) >= 1
    /\ Len(hotels) >= 1

(***************************************************************************)
(* Per-record normalization                                                *)
(***************************************************************************)

\* A raw flight whose fields all pass type and range coercion.
CoercibleFlight(c) ==
    ~IsNone(c.departure_time) /\ c.duration_minutes > 0 /\ c.price >= 0

\* A raw hotel whose fields all pass type and range coercion.
CoercibleHotel(c) ==
    /\ ~IsNone(c.rating) /\ ~IsNone(c.price_per_night)
    /\ Val(c.rating) >= 0 /\ Val(c.rating) =< 50

\* A raw POI whose rating and duration pass range coercion.
CoerciblePoi(c) ==
    /\ IsNone(c.rating) \/ (Val(c.rating) >= 0 /\ Val(c.rating) =< 50)
    /\ IsNone(c.duration_hours) \/ Val(c.duration_hours) > 0

\* The response is successful and carries one record for each coercible
\* candidate of the batch.
KeepsTheRest(resp, coercible, label(_)) ==
    /\ ~IsNone(resp)
    /\ Val(resp).success
    /\ Len(Val(resp).data)
           = Cardinality({i \in DOMAIN candidates : coercible[i]})
    /\ \A i \in DOMAIN candidates :
           coercible[i] =>
               \E j \in DOMAIN Val(resp).data :
                   label(Val(resp).data[j]) = label(candidates[i])

AirlineOf(c) == c.airline
NameOf(c) == c.name

C21_FlightBatchKept ==
    pc = "flight_answer" =>
        KeepsTheRest(flight_response,
                     [i \in DOMAIN candidates |-> CoercibleFlight(candidates[i])],
                     AirlineOf)

C21_PoiBatchKept ==
    pc = "poi_answer" =>
        KeepsTheRest(poi_response,
                     [i \in DOMAIN candidates |-> CoerciblePoi(candidates[i])],
                     NameOf)

C21_HotelBatchKept ==
    pc = "hotel_answer" =>
        KeepsTheRest(hotel_response,
                     [i \in DOMAIN candidates |-> CoercibleHotel(candidates[i])],
                     NameOf)

\* C21: in each provider, a raw candidate with a field that fails coercion
\* is the only one dropped: the provider answers with a successful response
\* that carries every other candidate of the batch.
C21_OnlyBadRecordsDropped ==
    C21_FlightBatchKept /\ C21_HotelBatchKept /\ C21_PoiBatchKept

(***************************************************************************)
(* Determinism of composition                                              *)
(***************************************************************************)

\* What a second run of create_itinerary on the same request and candidate
\* lists constructs (created_at and updated_at are not modelled).
SecondRun ==
    LET duration == request.end_date - request.start_date
        best_flights == select_best_flights(flights)
    IN Itinerary(request.destination, request.start_date, request.end_date,
                 duration, best_flights.outbound, best_flights.return,
                 select_best_hotels(hotels, request, duration),
                 create_daily_schedules(request, pois, duration),
                 request.budget)

\* C22: two runs of create_itinerary on the same request and the same
\* candidate lists produce itineraries that agree in every field, in their
\* estimated cost and in their validation result.
C22_SameItineraryTwice ==
    (pc = "created" /\ request.end_date > request.start_date) =>
        /\ ~IsNone(itinerary)
        /\ ~IsNone(SecondRun)
        /\ Val(SecondRun) = Val(itinerary)
        /\ calculate_total_cost(Val(SecondRun))
               = calculate_total_cost(Val(itinerary))
        /\ validate_itinerary(Val(SecondRun))
               = validate_itinerary(Val(itinerary))

\* Both runs end the same way and leave the same selections behind.
C22_SameOutcomeTwice ==
    pc = "created" =>
        /\ IsNone(SecondRun) = raised
        /\ SecondRun = itinerary
        /\ selected_flights = select_best_flights(flights)
        /\ selected_hotels = select_best_hotels(hotels, request, trip_duration)
        /\ daily_schedules = create_daily_schedules(request, pois, trip_duration)

(***************************************************************************)
(* The five-night scenario                                                 *)
(***************************************************************************)

\* The estimated cost of the scenario: both flights, both hotels for five
\* nights, and the activity costs of the schedules.
ScenarioCost ==
    350 + 420 + (120 + 65) * 5 + ScheduleCosts(Val(itinerary).daily_schedules)

\* C23: for the five-night trip with budget 2000, flights at 350 and 420 and
\* hotels at 120 and 65 per night, composition yields an itinerary with the
\* 350 flight outbound, the 420 flight as return, both hotels, total_days = 5
\* and an estimated cost of 350 + 420 + (120 + 65) x 5 + activity costs, and
\* validation passes exactly when that cost is at most 2000.
C23_FiveNightScenario ==
    pc = "created" =>
        /\ ~IsNone(itinerary)
        /\ Val(Val(itinerary).outbound_flight).price = 350
        /\ Val(Val(itinerary).return_flight).price = 420
        /\ Range(Val(itinerary).hotels) = ScenarioHotels
        /\ Val(itinerary).total_days = 5
        /\ calculate_total_cost(Val(itinerary)) = ScenarioCost
        /\ validate_itinerary(Val(itinerary)) = (ScenarioCost <= 2000)

\* What the scenario's run does reach before the constructor: the 350
\* flight outbound, the 420 flight as return, both hotels, five schedules.
C23_ScenarioSelections ==
    pc = "created" =>
        /\ Val(selected_flights.outbound).price = 350
        /\ Val(selected_flights.return).price = 420
        /\ Range(selected_hotels) = ScenarioHotels
        /\ Len(selected_hotels) = 2
        /\ trip_duration = 5
        /\ Len(daily_schedules) = 5
        /\ raised

(***************************************************************************)
(* Termination                                                             *)
(***************************************************************************)

\* C24: even when an external search or LLM call never answers, every
\* provider's process_request eventually returns, and so
\* PlannerAgent.process_request eventually returns a response.
C24_PipelineAlwaysReturns == <>(pc = "done" /\ ~IsNone(response))

(***************************************************************************)
(* Order of the stages                                                     *)
(***************************************************************************)

\* The points of main() at which the summary, the detailed display or the
\* saved file has already been given the itinerary.
Reported ==
    pc \in {"display_itinerary_summary", "display_detailed_itinerary",
            "save_itinerary", "main_validate_itinerary", "main_done"}

C25_ReportedBeforeValidated == ~IsNone(is_valid) <=> pc = "main_done"

(***************************************************************************)
(* Activities of the arrival, departure and middle days                    *)
(***************************************************************************)

\* The smallest element of a non-empty set of integers.
Least(S) == CHOOSE x \in S : \A y \in S : x <= y

\* The first POI, in provider order, of the first category of `order` that
\* any POI has; nothing when no POI has a category of `order`.
ClaimedPick(order) ==
    LET present == {k \in 1..Len(order) :
                       \E j \in 1..Len(pois) : pois[j].category = order[k]}
    IN IF present = {} THEN << >>
       ELSE LET category == order[Least(present)]
            IN <<pois[Least({j \in 1..Len(pois) :
                                pois[j].category = category})]>>

\* The activities scheduled on day `day` (0-indexed).
ActivitiesOn(day) == daily_schedules[day + 1].activities

\* C26: the arrival day (day 0, also the single day of a 1-day trip) gets
\* the first POI of the first category present among food, entertainment,
\* cultural; the departure day (day total_days - 1 of a longer trip) the
\* first POI of the first category present among shopping, food, cultural;
\* each gets no activity when none of its three categories is present.
C26_ArrivalAndDepartureDays ==
    pc = "schedules_created" =>
        /\ ActivitiesOn(0) = ClaimedPick(<<"food", "entertainment", "cultural">>)
        /\ trip_duration > 1 =>
               ActivitiesOn(trip_duration - 1)
                   = ClaimedPick(<<"shopping", "food", "cultural">>)

\* C26 witness: a trip of several days whose arrival day got a food POI
\* that is not the first candidate and whose departure day got the
\* shopping POI, with a candidate of a category neither day looks for.
C26_FoodOnArrivalShoppingOnDeparture ==
    /\ pc = "schedules_created"
    /\ trip_duration > 1
    /\ Len(ActivitiesOn(0)) = 1
    /\ ActivitiesOn(0)[1].category = "food"
    /\ pois[1].category = "outdoor"
    /\ Len(ActivitiesOn(trip_duration - 1)) = 1
    /\ ActivitiesOn(trip_duration - 1)[1].category = "shopping"

\* The days strictly between the arrival and the departure day.
MiddleDays == {day \in 0..(trip_duration - 1) : 0 < day /\ day < trip_duration - 1}

\* The first POI of the first category to appear and the first POI of the
\* second category to appear, as far as they exist.
ClaimedMiddleDay ==
    IF pois = << >> THEN << >>
    ELSE LET others == {j \in 1..Len(pois) :
                           pois[j].category /= pois[1].category}
         IN IF others = {} THEN <<pois[1]>>
            ELSE <<pois[1], pois[Least(others)]>>

\* C27: every middle day gets min(2, number of distinct categories)
\* activities, the first POI of each of the first two categories in order
\* of first appearance, and two activities of a day never share a category.
C27_MiddleDays ==
    pc = "schedules_created" =>
        \A day \in MiddleDays :
            /\ Len(ActivitiesOn(day))
                   = Min(2, Cardinality({pois[j].category : j \in 1..Len(pois)}))
            /\ ActivitiesOn(day) = ClaimedMiddleDay
            /\ Len(ActivitiesOn(day)) = 2 =>
                   ActivitiesOn(day)[1].category /= ActivitiesOn(day)[2].category

\* C27 witness: a middle day whose second activity is the third candidate,
\* because the second candidate repeats the category of the first.
C27_SecondCategorySkipsRepeat ==
    /\ pc = "schedules_created"
    /\ MiddleDays /= {}
    /\ Len(pois) = 3
    /\ pois[1].category = pois[2].category
    /\ \E day \in MiddleDays : ActivitiesOn(day) = <<pois[1], pois[3]>>

(***************************************************************************)
(* Dates of the daily schedules                                            *)
(***************************************************************************)

\* C28: the daily schedules are dated start_date + k for k = 0 ..
\* total_days - 1 in list order: the first is dated start_date, the dates
\* are consecutive and strictly increasing without repeats, the last is
\* end_date - 1, and end_date itself gets no schedule.
C28_ConsecutiveDates ==
    pc = "schedules_created" =>
        /\ Len(daily_schedules) = trip_duration
        /\ \A k \in 0..(trip_duration - 1) :
               daily_schedules[k + 1].date = request.start_date + k
        /\ daily_schedules[1].date = request.start_date
        /\ \A d \in 1..(Len(daily_schedules) - 1) :
               daily_schedules[d + 1].date = daily_schedules[d].date + 1
        /\ \A d, e \in 1..Len(daily_schedules) :
               d /= e => daily_schedules[d].date /= daily_schedules[e].date
        /\ daily_schedules[Len(daily_schedules)].date = request.end_date - 1
        /\ \A d \in 1..Len(daily_schedules) :
               daily_schedules[d].date /= request.end_date

\* C28 witness: the schedules of a trip of at least three days, the last
\* of them dated the day before end_date.
C28_LastDayBeforeEndDate ==
    /\ pc = "schedules_created"
    /\ Len(daily_schedules) >= 3
    /\ daily_schedules[Len(daily_schedules)].date = request.end_date - 1
    /\ daily_schedules[1].date < daily_schedules[2].date

(***************************************************************************)
(* Activity selection does not consume POIs                                *)
(***************************************************************************)

\* C30: every middle day of a trip receives the same activity list as every
\* other middle day: a POI scheduled on one day is still a candidate for
\* the next and is scheduled again.
C30_MiddleDaysIdentical ==
    pc = "schedules_created" =>
        \A day, other \in MiddleDays :
            /\ ActivitiesOn(day) = ActivitiesOn(other)
            /\ ActivitiesOn(day) = MiddleDayActivities(pois)

\* C30 witness: a trip with two middle days that both hold the same two
\* POIs, one of which the arrival day holds as well.
C30_SamePoiOnThreeDays ==
    /\ pc = "schedules_created"
    /\ Cardinality(MiddleDays) >= 2
    /\ \A day \in MiddleDays : Len(ActivitiesOn(day)) = 2
    /\ ActivitiesOn(1) = ActivitiesOn(2)
    /\ Len(ActivitiesOn(0)) = 1
    /\ ActivitiesOn(0)[1] \in Range(ActivitiesOn(1))

(***************************************************************************)
(* Arguments left as they were                                             *)
(***************************************************************************)

====
